---- MODULE Spec2Model ----
\* Model of the email-archiver synchronization engine:
\*   runEmailSync            (src/src/controllers/oauthController.ts, second half = jobs/syncGmail.ts)
\*   listNewEmailMessages, getEmailContent, downloadAttachment (src/src/services/gmailService.ts)
\*   processAndSaveEmail, findAttachments, encrypt/decrypt     (src/unnamed/part_003)
\*   saveEmail               (src/src/models/emailModel.ts)
\*   uploadToDrive           (src/src/services/driveService.ts)
\*   getAuthenticatedClient  (src/unnamed/part_002 = auth/googleAuth.ts)
\*   handleOAuthCallback     (src/src/controllers/oauthController.ts, first half)
\*   the triggers            (src/src/index.ts)
\* Every await of the code is one step of a cycle, so that cycles started by
\* overlapping triggers interleave exactly where the event loop lets them.
EXTENDS Integers, Sequences, FiniteSets, TLC

\* ------------------------------------------------------------------ bounds
\* Number of runEmailSync invocations that may be in flight at once.
NCycles == 2
\* Number of events the remote change stream produces in a behaviour.
MaxHistory == 2
\* Number of failing remote / database calls in a behaviour.
MaxFaults == 2

\* --------------------------------------------------------------- constants
\* lastHistoryId: null (prisma String?, created as null).
NoCursor == -1
\* savedEmail: null (no Email row).
NoEmail == 0
\* messageHeader.id: undefined (a listed entry without id).
NoId == ""
\* gmailService.ts: safety limit of the fallback listing.
MAX_INITIAL_FETCH_PAGES == 5
\* gmailService.ts: maxResults of one messages.list page.
maxResults == 100
\* gmailService.ts lines 41-46: history.list is called without maxResults, so
\* a page holds at most the default of the Gmail API, 100 history records.
historyMaxResults == 100

Cycles == 1..NCycles

\* ------------------------------------------------- the remote mailbox's mail
\* A part of a Gmail payload: filename, body.attachmentId, mimeType, nested parts.
Part(f, a, mt, ps) == [filename |-> f, attachmentId |-> a, mimeType |-> mt, parts |-> ps]

\* The messages the remote mailbox delivers, in delivery order.
\*   m1: a body part, a good attachment, and a multipart container holding an
\*       attachment without mimeType, an inline part (filename, no attachmentId)
\*       and a second good attachment;
\*   m2: the same Message-ID header as m1 (a second copy of one mail);
\*   m3: no Message-ID header, one attachment.
MsgOrder == <<"m1", "m2", "m3">>

Msgs == {MsgOrder[i] : i \in 1..Len(MsgOrder)}

\* Payloads of further messages, one for each way of giving or not giving a
\* filename and a body.attachmentId to the four parts of a payload nested
\* three deep: parts 1 and 4 at the top, part 2 inside part 1, part 3 inside
\* part 2. Bits 2k-2 and 2k-1 of t say whether part k has a filename and an
\* attachmentId.
NTrees == 256

PartNames == <<"a.pdf", "b.png", "c.bin", "d.txt">>

PartAttachmentIds == <<"att1", "att2", "att3", "att4">>

Bit(t, b) == (t \div (2 ^ b)) % 2

TreePart(t, k, ps) ==
    Part(IF Bit(t, 2 * k - 2) = 1 THEN PartNames[k] ELSE "",
         IF Bit(t, 2 * k - 1) = 1 THEN PartAttachmentIds[k] ELSE "",
         "application/octet-stream", ps)

PartTree(t) ==
    << TreePart(t, 1, << TreePart(t, 2, << TreePart(t, 3, <<>>) >>) >>),
       TreePart(t, 4, <<>>) >>

\* The Gmail id of the message with payload PartTree(t).
TreeId(t) == "p" \o ToString(t)

TreeIds == {TreeId(t) : t \in 0..(NTrees - 1)}

TreeOf(m) == PartTree(CHOOSE t \in 0..(NTrees - 1) : TreeId(t) = m)

\* messages.get(format: full) of a message: id, Message-ID header, payload.parts.
RawEmail(m) ==
    CASE m = "m1" -> [id |-> "m1", messageId |-> "mid-a", parts |->
                        << Part("", "", "text/plain", <<>>),
                           Part("a.pdf", "att1", "application/pdf", <<>>),
                           Part("", "", "multipart/mixed",
                                << Part("c.bin", "att3", "", <<>>),
                                   Part("inline.txt", "", "text/plain", <<>>),
                                   Part("b.png", "att2", "image/png", <<>>) >>) >>]
      [] m = "m2" -> [id |-> "m2", messageId |-> "mid-a", parts |-> <<>>]
      [] m \in TreeIds -> [id |-> m, messageId |-> "", parts |-> TreeOf(m)]
      [] OTHER    -> [id |-> m, messageId |-> "", parts |->
                        << Part("d.txt", "att4", "text/plain", <<>>) >>]

\* ----------------------------------------------------------- pure functions
\* Mutant of findAttachments: only the top-level parts are looked at.
findAttachmentsTopLevel(parts) ==
    SelectSeq(parts, LAMBDA part : part.filename # "" /\ part.attachmentId # "")

\* processEmail.ts findAttachments: pre-order walk collecting the parts with a
\* non-empty filename and a body.attachmentId.
RECURSIVE findAttachments(_)
findAttachments(parts) ==
    IF parts = <<>> THEN <<>>
    ELSE LET part == Head(parts)
             own  == IF part.filename # "" /\ part.attachmentId # ""
                     THEN <<part>> ELSE <<>>
             sub  == IF Len(part.parts) > 0 THEN findAttachments(part.parts) ELSE <<>>
         IN  own \o sub \o findAttachments(Tail(parts))

\* processEmail.ts line 93: a collected part that is skipped as malformed.
Malformed(part) == part.attachmentId = "" \/ part.filename = "" \/ part.mimeType = ""

\* The attachment parts of message m, as processAndSaveEmail iterates them.
attachmentsToProcess(m) == findAttachments(RawEmail(m).parts)

\* Every attachmentId of the mailbox.
AttIds == UNION {{attachmentsToProcess(m)[i].attachmentId :
                      i \in 1..Len(attachmentsToProcess(m))} : m \in Msgs}

\* utils/encryption.ts encrypt: the ciphertext of a refresh token.
encrypt(text) ==
    CASE text = "r1" -> "enc-r1"
      [] text = "r2" -> "enc-r2"
      [] OTHER       -> "enc-other"

\* utils/encryption.ts decrypt succeeds exactly on ciphertexts of encrypt.
Decryptable(encryptedText) == encryptedText \in {"enc-r1", "enc-r2", "enc-other"}

\* utils/encryption.ts decrypt.
decrypt(encryptedText) ==
    CASE encryptedText = "enc-r1" -> "r1"
      [] encryptedText = "enc-r2" -> "r2"
      [] OTHER                    -> "other"

\* gmailService.ts lines 54-56: a history record with a messagesAdded entry
\* ("" stands for a record that adds no message).
AddsMessage(historyRecord) == historyRecord # ""

\* The ids of the message events of a change stream, in stream order.
MessagesOf(hist) == SelectSeq(hist, AddsMessage)

Reverse(s) == [i \in 1..Len(s) |-> s[Len(s) + 1 - i]]

Min(a, b) == IF a < b THEN a ELSE b

\* Mutant of IncrementalList: the event at the cursor itself is listed again.
IncrementalListInclusive(startHistoryId, hist) ==
    [messages  |-> MessagesOf(SubSeq(hist, IF startHistoryId = 0 THEN 1 ELSE startHistoryId,
                                     Len(hist))),
     historyId |-> Len(hist)]

\* gmailService.ts lines 39-74: one history.list(startHistoryId, messageAdded)
\* call: res.data.history is the first page of the records that add a message
\* after the cursor, in stream order (res.data.nextPageToken is not read), and
\* res.data.historyId is the mailbox's current historyId.
IncrementalList(startHistoryId, hist) ==
    LET added == MessagesOf(SubSeq(hist, startHistoryId + 1, Len(hist)))
    IN  [messages  |-> SubSeq(added, 1, Min(Len(added), historyMaxResults)),
         historyId |-> Len(hist)]

\* Mutant of FallbackPages: the loop goes on while the remote offers a next page.
RECURSIVE FallbackPagesUncapped(_, _, _, _)
FallbackPagesUncapped(inbox, offset, currentPage, messages) ==
    LET page          == SubSeq(inbox, offset + 1, Min(Len(inbox), offset + maxResults))
        collected     == messages \o page
        nextPageToken == IF offset + maxResults < Len(inbox) THEN offset + maxResults ELSE 0
    IN  IF nextPageToken # 0
        THEN FallbackPagesUncapped(inbox, nextPageToken, currentPage + 1, collected)
        ELSE collected

\* gmailService.ts lines 85-109: the do-while over messages.list pages; the
\* page token is the offset of the next page in the remote's newest-first list.
RECURSIVE FallbackPages(_, _, _, _)
FallbackPages(inbox, offset, currentPage, messages) ==
    LET page          == SubSeq(inbox, offset + 1, Min(Len(inbox), offset + maxResults))
        collected     == messages \o page
        nextPageToken == IF offset + maxResults < Len(inbox) THEN offset + maxResults ELSE 0
    IN  IF nextPageToken # 0 /\ currentPage < MAX_INITIAL_FETCH_PAGES
        THEN FallbackPages(inbox, nextPageToken, currentPage + 1, collected)
        ELSE collected

\* Mutant of FallbackList: the fallback listing also returns the mailbox's historyId.
FallbackListWithHistoryId(hist) ==
    [messages  |-> FallbackPages(Reverse(MessagesOf(hist)), 0, 1, <<>>),
     historyId |-> Len(hist)]

\* gmailService.ts lines 75-121: the fallback listing returns historyId null.
FallbackList(hist) ==
    [messages  |-> FallbackPages(Reverse(MessagesOf(hist)), 0, 1, <<>>),
     historyId |-> NoCursor]

\* Mutant of listNewEmailMessages: a call without startHistoryId answers with
\* the mailbox's current historyId next to the listed messages.
listNewEmailMessagesWithBaseline(startHistoryId, hist) ==
    IF startHistoryId # NoCursor
    THEN IncrementalList(startHistoryId, hist)
    ELSE [FallbackList(hist) EXCEPT !.historyId = Len(hist)]

\* gmailService.ts listNewEmailMessages, the result of a call that does not throw.
listNewEmailMessages(startHistoryId, hist) ==
    IF startHistoryId # NoCursor
    THEN IncrementalList(startHistoryId, hist)
    ELSE FallbackList(hist)


\* ------------------------------------------------------------------- state
VARIABLES
    token,        \* the OAuthToken row id 1 (exists = FALSE: no row)
    history,      \* the remote change stream: event i has historyId i; "" = an event that adds no message
    emails,       \* the Email table, in id order
    attachments,  \* the Attachment table, in id order (attachmentId: the part a row came from)
    drive,        \* the files created in Google Drive, in id order
    xfer,         \* per attachmentId, how far its transfer got (observation of the calls made)
    cyc,          \* per runEmailSync invocation: its locals and its position
    faults,       \* number of remote / database calls that failed so far
    response      \* what /sync-now last answered

vars == <<token, history, emails, attachments, drive, xfer, cyc, faults, response>>

NoToken == [exists |-> FALSE, access |-> "", refresh |-> "", expiry |-> 0,
            lastHistoryId |-> NoCursor]

\* googleAuth.ts lines 44-47: an updateData without any field (nothing to write).
NoUpdate == [access |-> "", expiry |-> 0, refresh |-> ""]

\* The locals of a runEmailSync invocation that has not started, with the
\* observations of the cycle: res (what became of each entry), fetched and
\* calls (arguments of getEmailContent / processAndSaveEmail), wrote (cursor writes);
\* pendingTokens is the update the "tokens" listener of the invocation's client
\* has issued and the database has not executed yet, tokenSeen the row as it
\* was when that update was issued.
IdleCycle ==
    [pc |-> "idle", outcome |-> "none", pendingTokens |-> NoUpdate, tokenSeen |-> NoToken,
     currentHistoryId |-> NoCursor, messageHeaders |-> <<>>, newHistoryId |-> NoCursor,
     idx |-> 0, successfullyProcessedCount |-> 0, failedProcessingCount |-> 0,
     savedEmail |-> NoEmail, partIdx |-> 0, uploadedFile |-> 0,
     res |-> <<>>, fetched |-> <<>>, calls |-> <<>>, wrote |-> <<>>]

\* auth/googleAuth.ts getAuthenticatedClient throws: no client.
NoClient == [access_token |-> "", refresh_token |-> "", expiry_date |-> 0]

\* Mutant of getAuthenticatedClient: a refresh value that cannot be decrypted
\* is not noticed.
getAuthenticatedClientNoDecryptCheck(dbToken) ==
    IF ~dbToken.exists
    THEN [error |-> "OAuth token not found in database", client |-> NoClient]
    ELSE IF dbToken.refresh = ""
    THEN [error |-> "Refresh token is missing from the database", client |-> NoClient]
    ELSE [error |-> "",
          client |-> [access_token |-> dbToken.access,
                      refresh_token |-> decrypt(dbToken.refresh),
                      expiry_date |-> dbToken.expiry]]

\* auth/googleAuth.ts lines 136-170, getAuthenticatedClient on the row that
\* findUnique returned: the error it throws ("" for none) and the credentials
\* of the client it returns.
getAuthenticatedClient(dbToken) ==
    IF ~dbToken.exists
    THEN [error |-> "OAuth token not found in database", client |-> NoClient]
    ELSE IF dbToken.refresh = ""
    THEN [error |-> "Refresh token is missing from the database", client |-> NoClient]
    ELSE IF ~Decryptable(dbToken.refresh)
    THEN [error |-> "Failed to decrypt refresh token", client |-> NoClient]
    ELSE [error |-> "",
          client |-> [access_token |-> dbToken.access,
                      refresh_token |-> decrypt(dbToken.refresh),
                      expiry_date |-> dbToken.expiry]]

\* auth/googleAuth.ts getAuthenticatedClient returns a client (does not throw).
AuthOK(dbToken) == getAuthenticatedClient(dbToken).error = ""

\* A remote or database call may fail while the fault budget lasts.
CanFail == faults < MaxFaults

\* Mutant of Duplicate: only gmailId is unique.
DuplicateGmailIdOnly(parsedEmailData) ==
    \E i \in 1..Len(emails) : emails[i].gmailId = parsedEmailData.gmailId

\* Mutant of Duplicate: the Email table has no unique constraint.
DuplicateNever(parsedEmailData) == FALSE

\* emailModel.ts saveEmail: prisma.email.create hits a unique constraint
\* (gmailId @unique, messageId String? @unique: NULLs never collide).
Duplicate(parsedEmailData) ==
    \E i \in 1..Len(emails) :
        \/ emails[i].gmailId = parsedEmailData.gmailId
        \/ /\ parsedEmailData.messageId # ""
           /\ emails[i].messageId = parsedEmailData.messageId

\* utils/emailParser.ts parseEmailContent: the fields the store keys on.
parseEmailContent(rawEmail) ==
    [gmailId |-> rawEmail.id, messageId |-> rawEmail.messageId]

\* Mutant of LoopDone: the loop stops one header early.
LoopDoneEarly(cy) == cy.idx >= Len(cy.messageHeaders)

\* syncGmail.ts: the for loop has no header left.
LoopDone(cy) == cy.idx > Len(cy.messageHeaders)

\* Mutant of FinishItem: an exception of getEmailContent leaves the for loop.
FinishItemBreak(cy, tag) ==
    LET failed == tag \in {"fetchNull", "fetchErr", "authErr"}
        cy1 == [cy EXCEPT !.res = Append(@, tag),
                          !.successfullyProcessedCount = IF failed THEN @ ELSE @ + 1,
                          !.failedProcessingCount = IF failed THEN @ + 1 ELSE @,
                          !.idx = @ + 1,
                          !.savedEmail = NoEmail, !.partIdx = 0, !.uploadedFile = 0]
    IN  IF ~LoopDone(cy1) /\ tag # "fetchErr" THEN [cy1 EXCEPT !.pc = "fetch"]
        ELSE IF cy1.newHistoryId # NoCursor THEN [cy1 EXCEPT !.pc = "commit"]
        ELSE [cy1 EXCEPT !.pc = "idle", !.outcome = "END"]

\* Mutant of FinishItem: the cursor is stored only when an item succeeded.
FinishItemNeedsSuccess(cy, tag) ==
    LET failed == tag \in {"fetchNull", "fetchErr", "authErr"}
        cy1 == [cy EXCEPT !.res = Append(@, tag),
                          !.successfullyProcessedCount = IF failed THEN @ ELSE @ + 1,
                          !.failedProcessingCount = IF failed THEN @ + 1 ELSE @,
                          !.idx = @ + 1,
                          !.savedEmail = NoEmail, !.partIdx = 0, !.uploadedFile = 0]
    IN  IF ~LoopDone(cy1) THEN [cy1 EXCEPT !.pc = "fetch"]
        ELSE IF cy1.newHistoryId # NoCursor /\ cy1.successfullyProcessedCount > 0
             THEN [cy1 EXCEPT !.pc = "commit"]
        ELSE [cy1 EXCEPT !.pc = "idle", !.outcome = "END"]

\* Mutant of FinishItem: after an entry whose fetch failed the next entry is skipped.
FinishItemSkipsNext(cy, tag) ==
    LET failed == tag \in {"fetchNull", "fetchErr", "authErr"}
        cy1 == [cy EXCEPT !.res = Append(@, tag),
                          !.successfullyProcessedCount = IF failed THEN @ ELSE @ + 1,
                          !.failedProcessingCount = IF failed THEN @ + 1 ELSE @,
                          !.idx = IF failed THEN @ + 2 ELSE @ + 1,
                          !.savedEmail = NoEmail, !.partIdx = 0, !.uploadedFile = 0]
    IN  IF ~LoopDone(cy1) THEN [cy1 EXCEPT !.pc = "fetch"]
        ELSE IF cy1.newHistoryId # NoCursor THEN [cy1 EXCEPT !.pc = "commit"]
        ELSE [cy1 EXCEPT !.pc = "idle", !.outcome = "END"]

\* Mutant of FinishItem: an entry whose fetch returned null is counted in
\* neither counter.
FinishItemNullUncounted(cy, tag) ==
    LET failed == tag \in {"invalid", "fetchErr", "authErr"}
        cy1 == [cy EXCEPT !.res = Append(@, tag),
                          !.successfullyProcessedCount =
                              IF failed \/ tag = "fetchNull" THEN @ ELSE @ + 1,
                          !.failedProcessingCount = IF failed THEN @ + 1 ELSE @,
                          !.idx = @ + 1,
                          !.savedEmail = NoEmail, !.partIdx = 0, !.uploadedFile = 0]
    IN  IF ~LoopDone(cy1) THEN [cy1 EXCEPT !.pc = "fetch"]
        ELSE IF cy1.newHistoryId # NoCursor THEN [cy1 EXCEPT !.pc = "commit"]
        ELSE [cy1 EXCEPT !.pc = "idle", !.outcome = "END"]

\* syncGmail.ts lines 240-292: one loop entry is over with result tag
\* (invalid: a header without id, skipped before any call); the loop goes on
\* to the next header, or past its end to the cursor update.
FinishItem(cy, tag) ==
    LET failed == tag \in {"invalid", "fetchNull", "fetchErr", "authErr"}
        cy1 == [cy EXCEPT !.res = Append(@, tag),
                          !.successfullyProcessedCount = IF failed THEN @ ELSE @ + 1,
                          !.failedProcessingCount = IF failed THEN @ + 1 ELSE @,
                          !.idx = @ + 1,
                          !.savedEmail = NoEmail, !.partIdx = 0, !.uploadedFile = 0]
    IN  IF ~LoopDone(cy1) THEN [cy1 EXCEPT !.pc = "fetch"]
        ELSE IF cy1.newHistoryId # NoCursor THEN [cy1 EXCEPT !.pc = "commit"]
        ELSE [cy1 EXCEPT !.pc = "idle", !.outcome = "END"]

\* Mutant of FirstGood: a malformed part ends the attachment loop (break for continue).
FirstGoodBreak(parts, k) ==
    IF k <= Len(parts) /\ ~Malformed(parts[k]) THEN k ELSE Len(parts) + 1

\* processEmail.ts lines 91-99: index of the first part at or after k that is
\* not skipped as malformed (Len + 1 when there is none).
FirstGood(parts, k) ==
    IF \E j \in k..Len(parts) : ~Malformed(parts[j])
    THEN CHOOSE j \in k..Len(parts) :
             /\ ~Malformed(parts[j])
             /\ \A i \in k..(j - 1) : Malformed(parts[i])
    ELSE Len(parts) + 1

\* processEmail.ts lines 91-156: the attachment loop moves to part k: malformed
\* parts are skipped, the next good one is downloaded, and after the last part
\* processAndSaveEmail returns.
NextPart(cy, m, k) ==
    LET parts == attachmentsToProcess(m)
        j     == FirstGood(parts, k)
    IN  IF j <= Len(parts)
        THEN [cy EXCEPT !.pc = "download", !.partIdx = j, !.uploadedFile = 0]
        ELSE FinishItem(cy, "saved")

\* The observation of the parts k..(FirstGood - 1) skipped as malformed.
SkipLog(x, m, k) ==
    LET parts == attachmentsToProcess(m)
        j     == FirstGood(parts, k)
    IN  [a \in AttIds |->
            IF \E i \in k..(j - 1) : parts[i].attachmentId = a THEN "malformed" ELSE x[a]]

\* The stored credential rows a deployment can start from.
InitTokens ==
    {NoToken} \cup
    [exists : {TRUE}, access : {"a0"}, refresh : {"enc-r1", "", "garbage"},
     expiry : {0}, lastHistoryId : {NoCursor, 0}]

Init ==
    /\ token \in InitTokens
    /\ history = <<>>
    /\ emails = <<>>
    /\ attachments = <<>>
    /\ drive = <<>>
    /\ xfer = [a \in AttIds |-> "none"]
    /\ cyc = [c \in Cycles |-> IdleCycle]
    /\ faults = 0
    /\ response = "none"


\* ------------------------------------------------------------ the remote
\* The mailbox's change stream grows by one event: the next message of
\* MsgOrder is added, or something else changes (a label, a read flag).
RemoteEvent ==
    /\ Len(history) < MaxHistory
    /\ \E kind \in {"message", "other"} :
          LET n == Len(MessagesOf(history)) + 1
          IN  /\ kind = "message" => n <= Len(MsgOrder)
              /\ history' = Append(history, IF kind = "message" THEN MsgOrder[n] ELSE "")
    /\ UNCHANGED <<token, emails, attachments, drive, xfer, cyc, faults, response>>

\* Mutant of StartCycle: a row without a refresh token is not noticed at the load.
StartCycleNoRefreshCheck(c) ==
    /\ cyc[c].pc = "idle"
    /\ \A d \in Cycles : d < c => cyc[d].pc # "idle"
    /\ \E dbOk \in BOOLEAN :
          /\ ~dbOk => CanFail
          /\ faults' = IF dbOk THEN faults ELSE faults + 1
          /\ cyc' = [cyc EXCEPT ![c] =
                IF ~dbOk \/ ~token.exists
                THEN [IdleCycle EXCEPT !.outcome = "ABORT_NO_CREDENTIAL"]
                ELSE [IdleCycle EXCEPT !.pc = "list",
                                       !.currentHistoryId = token.lastHistoryId]]
    /\ UNCHANGED <<token, history, emails, attachments, drive, xfer>>

\* ------------------------------------------------------------ runEmailSync
\* syncGmail.ts lines 168-204: runEmailSync is entered in the lowest free slot c;
\* it reads the token row and returns, or goes on to the listing.
StartCycle(c) ==
    /\ cyc[c].pc = "idle"
    /\ \A d \in Cycles : d < c => cyc[d].pc # "idle"
    /\ \E dbOk \in BOOLEAN :
          /\ ~dbOk => CanFail
          /\ faults' = IF dbOk THEN faults ELSE faults + 1
          /\ cyc' = [cyc EXCEPT ![c] =
                IF ~dbOk \/ ~token.exists \/ token.refresh = ""
                THEN [IdleCycle EXCEPT !.outcome = "ABORT_NO_CREDENTIAL"]
                ELSE [IdleCycle EXCEPT !.pc = "list",
                                       !.currentHistoryId = token.lastHistoryId]]
    /\ UNCHANGED <<token, history, emails, attachments, drive, xfer>>

\* index.ts lines 43-55: the cron callback calls runEmailSync, whatever is running.
CronTick ==
    /\ \E c \in Cycles : StartCycle(c)
    /\ UNCHANGED response

\* /sync-now answering with what runEmailSync found when it loaded the
\* credential.
SyncNowReportsOutcome ==
    /\ \E c \in Cycles : StartCycle(c)
    /\ response' = IF \E c \in Cycles : cyc'[c].outcome = "ABORT_NO_CREDENTIAL" /\ cyc'[c] # cyc[c]
                   THEN "failed"
                   ELSE "initiated"

\* index.ts lines 28-35: /sync-now calls runEmailSync without awaiting it and answers.
SyncNow ==
    /\ \E c \in Cycles : StartCycle(c)
    /\ response' = "initiated"

\* Mutant of ListStep: the empty-list branch writes whenever the listing
\* brought a historyId, also the one the cycle started with.
ListStepAlwaysWrites(c) ==
    LET cy == cyc[c]
        r  == listNewEmailMessages(cy.currentHistoryId, history)
        cy1 == [cy EXCEPT !.messageHeaders = r.messages, !.newHistoryId = r.historyId]
    IN  /\ cy.pc = "list"
        /\ AuthOK(token)
        /\ cyc' = [cyc EXCEPT ![c] =
              IF r.messages = <<>>
              THEN IF r.historyId # NoCursor
                   THEN [cy1 EXCEPT !.pc = "commitEmpty"]
                   ELSE [cy1 EXCEPT !.pc = "idle", !.outcome = "END"]
              ELSE [cy1 EXCEPT !.pc = "fetch", !.idx = 1]]
        /\ UNCHANGED <<token, history, emails, attachments, drive, xfer, faults, response>>

\* syncGmail.ts lines 206-235 with gmailService.ts listNewEmailMessages: the
\* listing returns; an empty list ends the cycle (after the cursor update when
\* the history advanced), a non-empty one enters the loop.
ListStep(c) ==
    LET cy == cyc[c]
        r  == listNewEmailMessages(cy.currentHistoryId, history)
        cy1 == [cy EXCEPT !.messageHeaders = r.messages, !.newHistoryId = r.historyId]
    IN  /\ cy.pc = "list"
        /\ AuthOK(token)
        /\ cyc' = [cyc EXCEPT ![c] =
              IF r.messages = <<>>
              THEN IF r.historyId # NoCursor /\ r.historyId # cy.currentHistoryId
                   THEN [cy1 EXCEPT !.pc = "commitEmpty"]
                   ELSE [cy1 EXCEPT !.pc = "idle", !.outcome = "END"]
              ELSE [cy1 EXCEPT !.pc = "fetch", !.idx = 1]]
        /\ UNCHANGED <<token, history, emails, attachments, drive, xfer, faults, response>>

\* Mutant of ListFail: the catch block stores the mailbox's current historyId.
ListFailAdvances(c) ==
    LET cy == cyc[c]
    IN  /\ cy.pc = "list"
        /\ ~AuthOK(token) \/ CanFail
        /\ faults' = IF AuthOK(token) THEN faults + 1 ELSE faults
        /\ token' = IF token.exists THEN [token EXCEPT !.lastHistoryId = Len(history)]
                    ELSE token
        /\ cyc' = [cyc EXCEPT ![c] = [cy EXCEPT !.pc = "idle", !.outcome = "ABORT_FATAL"]]
        /\ UNCHANGED <<history, emails, attachments, drive, xfer, response>>

\* gmailService.ts lines 24-34, 122-141 and syncGmail.ts lines 296-309:
\* getAuthenticatedClient or the Gmail call throws; the outer catch logs and returns.
ListFail(c) ==
    LET cy == cyc[c]
    IN  /\ cy.pc = "list"
        /\ ~AuthOK(token) \/ CanFail
        /\ faults' = IF AuthOK(token) THEN faults + 1 ELSE faults
        /\ cyc' = [cyc EXCEPT ![c] = [cy EXCEPT !.pc = "idle", !.outcome = "ABORT_FATAL"]]
        /\ UNCHANGED <<token, history, emails, attachments, drive, xfer, response>>

\* Mutant of FetchStep: a 404 is not turned into null inside getEmailContent
\* and is not caught per item either: it ends the cycle.
FetchStepFatal404(c) ==
    LET cy  == cyc[c]
        gmailMessageId == cy.messageHeaders[cy.idx]
        cy1 == [cy EXCEPT !.fetched = Append(@, gmailMessageId)]
    IN  /\ cy.pc = "fetch"
        /\ \E r \in {"ok", "404", "error"} :
              /\ r = "ok" => AuthOK(token)
              /\ r = "404" => AuthOK(token) /\ CanFail
              /\ r = "error" => ~AuthOK(token) \/ CanFail
              /\ faults' = IF r = "ok" \/ ~AuthOK(token) THEN faults ELSE faults + 1
              /\ cyc' = [cyc EXCEPT ![c] =
                    CASE r = "ok"  -> [cy1 EXCEPT !.pc = "save"]
                      [] r = "404" -> [cy1 EXCEPT !.res = Append(@, "fetchNull"),
                                                  !.pc = "idle", !.outcome = "ABORT_FATAL"]
                      [] OTHER     -> FinishItem(cy1, IF AuthOK(token) THEN "fetchErr"
                                                      ELSE "authErr")]
        /\ UNCHANGED <<token, history, emails, attachments, drive, xfer, response>>

\* syncGmail.ts lines 246-269 with gmailService.ts getEmailContent: the message
\* comes back (on to processAndSaveEmail), is gone (404: null), or the call
\* throws (authErr: getAuthenticatedClient threw, lines 158-167).
FetchStep(c) ==
    LET cy  == cyc[c]
        gmailMessageId == cy.messageHeaders[cy.idx]
        cy1 == [cy EXCEPT !.fetched = Append(@, gmailMessageId)]
    IN  /\ cy.pc = "fetch"
        /\ gmailMessageId # NoId
        /\ \E r \in {"ok", "404", "error"} :
              /\ r = "ok" => AuthOK(token)
              /\ r = "404" => AuthOK(token) /\ CanFail
              /\ r = "error" => ~AuthOK(token) \/ CanFail
              /\ faults' = IF r = "ok" \/ ~AuthOK(token) THEN faults ELSE faults + 1
              /\ cyc' = [cyc EXCEPT ![c] =
                    CASE r = "ok"  -> [cy1 EXCEPT !.pc = "save"]
                      [] r = "404" -> FinishItem(cy1, "fetchNull")
                      [] OTHER     -> FinishItem(cy1, IF AuthOK(token) THEN "fetchErr"
                                                      ELSE "authErr")]
        /\ UNCHANGED <<token, history, emails, attachments, drive, xfer, response>>

\* Mutant of SaveStep: saveEmail answers a unique-constraint hit with the row
\* that is already stored (an upsert), so the attachment loop runs again.
SaveStepUpsert(c) ==
    LET cy  == cyc[c]
        rawEmail == RawEmail(cy.messageHeaders[cy.idx])
        parsedEmailData == parseEmailContent(rawEmail)
        cy1 == [cy EXCEPT !.calls = Append(@, rawEmail.id)]
        old == CHOOSE e \in 1..Len(emails) :
                  \/ emails[e].gmailId = parsedEmailData.gmailId
                  \/ emails[e].messageId = parsedEmailData.messageId
    IN  /\ cy.pc = "save"
        /\ \E dbOk \in BOOLEAN :
              /\ ~dbOk => CanFail
              /\ faults' = IF dbOk THEN faults ELSE faults + 1
              /\ IF ~dbOk
                 THEN /\ cyc' = [cyc EXCEPT ![c] = FinishItem(cy1, "saveErr")]
                      /\ UNCHANGED <<emails, xfer>>
                 ELSE IF Duplicate(parsedEmailData)
                 THEN /\ cyc' = [cyc EXCEPT ![c] =
                            NextPart([cy1 EXCEPT !.savedEmail = old], rawEmail.id, 1)]
                      /\ xfer' = SkipLog(xfer, rawEmail.id, 1)
                      /\ UNCHANGED emails
                 ELSE /\ emails' = Append(emails, parsedEmailData)
                      /\ cyc' = [cyc EXCEPT ![c] =
                            NextPart([cy1 EXCEPT !.savedEmail = Len(emails) + 1],
                                     rawEmail.id, 1)]
                      /\ xfer' = SkipLog(xfer, rawEmail.id, 1)
        /\ UNCHANGED <<token, history, attachments, drive, response>>

\* Mutant of SaveStep: a save that finds the id stored resumes the attachment
\* loop when a part of the item was left unfinished.
SaveStepResume(c) ==
    LET cy  == cyc[c]
        rawEmail == RawEmail(cy.messageHeaders[cy.idx])
        parsedEmailData == parseEmailContent(rawEmail)
        cy1 == [cy EXCEPT !.calls = Append(@, rawEmail.id)]
        parts == attachmentsToProcess(rawEmail.id)
        old == {e \in 1..Len(emails) : emails[e].gmailId = rawEmail.id}
        unfinished == \E k \in 1..Len(parts) :
                          xfer[parts[k].attachmentId] \in {"none", "downloaded", "uploaded"}
    IN  /\ cy.pc = "save"
        /\ \E dbOk \in BOOLEAN :
              /\ ~dbOk => CanFail
              /\ faults' = IF dbOk THEN faults ELSE faults + 1
              /\ IF ~dbOk
                 THEN /\ cyc' = [cyc EXCEPT ![c] = FinishItem(cy1, "saveErr")]
                      /\ UNCHANGED <<emails, xfer>>
                 ELSE IF Duplicate(parsedEmailData) /\ old # {} /\ unfinished
                 THEN /\ cyc' = [cyc EXCEPT ![c] =
                            NextPart([cy1 EXCEPT !.savedEmail = CHOOSE e \in old : TRUE],
                                     rawEmail.id, 1)]
                      /\ xfer' = SkipLog(xfer, rawEmail.id, 1)
                      /\ UNCHANGED emails
                 ELSE IF Duplicate(parsedEmailData)
                 THEN /\ cyc' = [cyc EXCEPT ![c] = FinishItem(cy1, "dup")]
                      /\ UNCHANGED <<emails, xfer>>
                 ELSE /\ emails' = Append(emails, parsedEmailData)
                      /\ cyc' = [cyc EXCEPT ![c] =
                            NextPart([cy1 EXCEPT !.savedEmail = Len(emails) + 1],
                                     rawEmail.id, 1)]
                      /\ xfer' = SkipLog(xfer, rawEmail.id, 1)
        /\ UNCHANGED <<token, history, attachments, drive, response>>

\* Mutant of SaveStep: a save that hits a unique constraint merges the new
\* data into the row that is already stored.
SaveStepMerge(c) ==
    LET cy  == cyc[c]
        rawEmail == RawEmail(cy.messageHeaders[cy.idx])
        parsedEmailData == parseEmailContent(rawEmail)
        cy1 == [cy EXCEPT !.calls = Append(@, rawEmail.id)]
        old == CHOOSE e \in 1..Len(emails) :
                  \/ emails[e].gmailId = parsedEmailData.gmailId
                  \/ emails[e].messageId = parsedEmailData.messageId
    IN  /\ cy.pc = "save"
        /\ \E dbOk \in BOOLEAN :
              /\ ~dbOk => CanFail
              /\ faults' = IF dbOk THEN faults ELSE faults + 1
              /\ IF ~dbOk
                 THEN /\ cyc' = [cyc EXCEPT ![c] = FinishItem(cy1, "saveErr")]
                      /\ UNCHANGED <<emails, xfer>>
                 ELSE IF Duplicate(parsedEmailData)
                 THEN /\ cyc' = [cyc EXCEPT ![c] = FinishItem(cy1, "dup")]
                      /\ emails' = [emails EXCEPT ![old] = parsedEmailData]
                      /\ UNCHANGED xfer
                 ELSE /\ emails' = Append(emails, parsedEmailData)
                      /\ cyc' = [cyc EXCEPT ![c] =
                            NextPart([cy1 EXCEPT !.savedEmail = Len(emails) + 1],
                                     rawEmail.id, 1)]
                      /\ xfer' = SkipLog(xfer, rawEmail.id, 1)
        /\ UNCHANGED <<token, history, attachments, drive, response>>

\* processEmail.ts lines 29-90 with emailModel.ts saveEmail: parse, create the
\* Email row; a unique-constraint hit or any other database error makes
\* saveEmail return null and processAndSaveEmail return; a created row starts
\* the attachment loop.
SaveStep(c) ==
    LET cy  == cyc[c]
        rawEmail == RawEmail(cy.messageHeaders[cy.idx])
        parsedEmailData == parseEmailContent(rawEmail)
        cy1 == [cy EXCEPT !.calls = Append(@, rawEmail.id)]
    IN  /\ cy.pc = "save"
        /\ \E dbOk \in BOOLEAN :
              /\ ~dbOk => CanFail
              /\ faults' = IF dbOk THEN faults ELSE faults + 1
              /\ IF ~dbOk
                 THEN /\ cyc' = [cyc EXCEPT ![c] = FinishItem(cy1, "saveErr")]
                      /\ UNCHANGED <<emails, xfer>>
                 ELSE IF Duplicate(parsedEmailData)
                 THEN /\ cyc' = [cyc EXCEPT ![c] = FinishItem(cy1, "dup")]
                      /\ UNCHANGED <<emails, xfer>>
                 ELSE /\ emails' = Append(emails, parsedEmailData)
                      /\ cyc' = [cyc EXCEPT ![c] =
                            NextPart([cy1 EXCEPT !.savedEmail = Len(emails) + 1],
                                     rawEmail.id, 1)]
                      /\ xfer' = SkipLog(xfer, rawEmail.id, 1)
        /\ UNCHANGED <<token, history, attachments, drive, response>>

\* Mutant of DownloadStep: a download without data (404) is not noticed and
\* the upload is attempted.
DownloadStepIgnoresNull(c) ==
    LET cy   == cyc[c]
        m    == cy.messageHeaders[cy.idx]
        part == attachmentsToProcess(m)[cy.partIdx]
    IN  /\ cy.pc = "download"
        /\ \E r \in {"ok", "404", "error"} :
              /\ r = "ok" => AuthOK(token)
              /\ r = "404" => AuthOK(token) /\ CanFail
              /\ r = "error" => ~AuthOK(token) \/ CanFail
              /\ faults' = IF r = "ok" \/ ~AuthOK(token) THEN faults ELSE faults + 1
              /\ IF r \in {"ok", "404"}
                 THEN /\ cyc' = [cyc EXCEPT ![c] = [cy EXCEPT !.pc = "upload"]]
                      /\ xfer' = [xfer EXCEPT ![part.attachmentId] =
                                      IF r = "ok" THEN "downloaded" ELSE "dlNone"]
                 ELSE /\ cyc' = [cyc EXCEPT ![c] = NextPart(cy, m, cy.partIdx + 1)]
                      /\ xfer' = SkipLog([xfer EXCEPT ![part.attachmentId] = "dlErr"],
                                         m, cy.partIdx + 1)
        /\ UNCHANGED <<token, history, emails, attachments, drive, response>>

\* processEmail.ts lines 103-117 with gmailService.ts downloadAttachment: the
\* data comes back, or there is none (404 / empty: null), or the call throws;
\* without data the loop continues with the next part.
DownloadStep(c) ==
    LET cy   == cyc[c]
        m    == cy.messageHeaders[cy.idx]
        part == attachmentsToProcess(m)[cy.partIdx]
    IN  /\ cy.pc = "download"
        /\ \E r \in {"ok", "404", "error"} :
              /\ r = "ok" => AuthOK(token)
              /\ r = "404" => AuthOK(token) /\ CanFail
              /\ r = "error" => ~AuthOK(token) \/ CanFail
              /\ faults' = IF r = "ok" \/ ~AuthOK(token) THEN faults ELSE faults + 1
              /\ IF r = "ok"
                 THEN /\ cyc' = [cyc EXCEPT ![c] = [cy EXCEPT !.pc = "upload"]]
                      /\ xfer' = [xfer EXCEPT ![part.attachmentId] = "downloaded"]
                 ELSE /\ cyc' = [cyc EXCEPT ![c] = NextPart(cy, m, cy.partIdx + 1)]
                      /\ xfer' = SkipLog([xfer EXCEPT ![part.attachmentId] =
                                              IF r = "404" THEN "dlNone" ELSE "dlErr"],
                                         m, cy.partIdx + 1)
        /\ UNCHANGED <<token, history, emails, attachments, drive, response>>

\* Mutant of UploadStep: a failed upload is not noticed and the record is created.
UploadStepUnchecked(c) ==
    LET cy   == cyc[c]
        m    == cy.messageHeaders[cy.idx]
        part == attachmentsToProcess(m)[cy.partIdx]
    IN  /\ cy.pc = "upload"
        /\ \E ok \in BOOLEAN :
              /\ ok => AuthOK(token)
              /\ ~ok => ~AuthOK(token) \/ CanFail
              /\ faults' = IF ok \/ ~AuthOK(token) THEN faults ELSE faults + 1
              /\ drive' = IF ok THEN Append(drive, [name |-> part.filename,
                                                    mimeType |-> part.mimeType])
                          ELSE drive
              /\ cyc' = [cyc EXCEPT ![c] =
                    [cy EXCEPT !.pc = "record",
                               !.uploadedFile = IF ok THEN Len(drive) + 1 ELSE 0]]
              /\ xfer' = [xfer EXCEPT ![part.attachmentId] =
                              IF ok THEN "uploaded" ELSE "ulErr"]
        /\ UNCHANGED <<token, history, emails, attachments, response>>

\* processEmail.ts lines 119-133 with driveService.ts uploadToDrive: the file
\* is created in Drive, or the call throws (an answer without id or
\* webViewLink throws inside uploadToDrive) and the loop continues.
UploadStep(c) ==
    LET cy   == cyc[c]
        m    == cy.messageHeaders[cy.idx]
        part == attachmentsToProcess(m)[cy.partIdx]
    IN  /\ cy.pc = "upload"
        /\ \E ok \in BOOLEAN :
              /\ ok => AuthOK(token)
              /\ ~ok => ~AuthOK(token) \/ CanFail
              /\ faults' = IF ok \/ ~AuthOK(token) THEN faults ELSE faults + 1
              /\ IF ok
                 THEN /\ drive' = Append(drive, [name |-> part.filename,
                                                 mimeType |-> part.mimeType])
                      /\ cyc' = [cyc EXCEPT ![c] =
                            [cy EXCEPT !.pc = "record", !.uploadedFile = Len(drive) + 1]]
                      /\ xfer' = [xfer EXCEPT ![part.attachmentId] = "uploaded"]
                 ELSE /\ drive' = drive
                      /\ cyc' = [cyc EXCEPT ![c] = NextPart(cy, m, cy.partIdx + 1)]
                      /\ xfer' = SkipLog([xfer EXCEPT ![part.attachmentId] = "ulErr"],
                                         m, cy.partIdx + 1)
        /\ UNCHANGED <<token, history, emails, attachments, response>>

\* Mutant of RecordStep: the Attachment row is created a second time when the
\* create succeeded.
RecordStepTwice(c) ==
    LET cy   == cyc[c]
        m    == cy.messageHeaders[cy.idx]
        part == attachmentsToProcess(m)[cy.partIdx]
        row  == [emailId |-> cy.savedEmail,
                 attachmentId |-> part.attachmentId,
                 filename |-> part.filename, mimeType |-> part.mimeType,
                 driveId |-> cy.uploadedFile]
    IN  /\ cy.pc = "record"
        /\ \E dbOk \in BOOLEAN :
              /\ ~dbOk => CanFail
              /\ faults' = IF dbOk THEN faults ELSE faults + 1
              /\ attachments' =
                    IF dbOk THEN Append(Append(attachments, row), row) ELSE attachments
              /\ xfer' = SkipLog([xfer EXCEPT ![part.attachmentId] =
                                      IF dbOk THEN "recorded" ELSE "recErr"],
                                 m, cy.partIdx + 1)
        /\ cyc' = [cyc EXCEPT ![c] = NextPart(cy, m, cy.partIdx + 1)]
        /\ UNCHANGED <<token, history, emails, drive, response>>

\* processEmail.ts lines 135-155: prisma.attachment.create links the Drive
\* file to the Email row, or throws; either way the loop continues.
RecordStep(c) ==
    LET cy   == cyc[c]
        m    == cy.messageHeaders[cy.idx]
        part == attachmentsToProcess(m)[cy.partIdx]
    IN  /\ cy.pc = "record"
        /\ \E dbOk \in BOOLEAN :
              /\ ~dbOk => CanFail
              /\ faults' = IF dbOk THEN faults ELSE faults + 1
              /\ attachments' =
                    IF dbOk
                    THEN Append(attachments,
                                [emailId |-> cy.savedEmail,
                                 attachmentId |-> part.attachmentId,
                                 filename |-> part.filename, mimeType |-> part.mimeType,
                                 driveId |-> cy.uploadedFile])
                    ELSE attachments
              /\ xfer' = SkipLog([xfer EXCEPT ![part.attachmentId] =
                                      IF dbOk THEN "recorded" ELSE "recErr"],
                                 m, cy.partIdx + 1)
        /\ cyc' = [cyc EXCEPT ![c] = NextPart(cy, m, cy.partIdx + 1)]
        /\ UNCHANGED <<token, history, emails, drive, response>>

\* prisma.oAuthToken.update({where: {id: 1}, data: {lastHistoryId}}): the row
\* after the write (the other fields are those of the row at write time).
UpdateLastHistoryId(row, newHistoryId) == [row EXCEPT !.lastHistoryId = newHistoryId]

\* WriteCursor without the outer catch: a failing update leaves runEmailSync
\* as a rejected promise, no outcome is reached.
WriteCursorRethrows(c) ==
    LET cy == cyc[c]
    IN  \E dbOk \in BOOLEAN :
          /\ dbOk => token.exists
          /\ ~dbOk => ~token.exists \/ CanFail
          /\ faults' = IF dbOk \/ ~token.exists THEN faults ELSE faults + 1
          /\ token' = IF dbOk THEN UpdateLastHistoryId(token, cy.newHistoryId) ELSE token
          /\ cyc' = [cyc EXCEPT ![c] =
                IF dbOk
                THEN [cy EXCEPT !.pc = "idle", !.outcome = "END",
                                !.wrote = Append(@, cy.newHistoryId)]
                ELSE [cy EXCEPT !.pc = "thrown"]]

\* The cursor update of a cycle: the write succeeds and the cycle ends, or it
\* throws (no row, database error) into the outer catch.
WriteCursor(c) ==
    LET cy == cyc[c]
    IN  \E dbOk \in BOOLEAN :
          /\ dbOk => token.exists
          /\ ~dbOk => ~token.exists \/ CanFail
          /\ faults' = IF dbOk \/ ~token.exists THEN faults ELSE faults + 1
          /\ token' = IF dbOk THEN UpdateLastHistoryId(token, cy.newHistoryId) ELSE token
          /\ cyc' = [cyc EXCEPT ![c] =
                IF dbOk
                THEN [cy EXCEPT !.pc = "idle", !.outcome = "END",
                                !.wrote = Append(@, cy.newHistoryId)]
                ELSE [cy EXCEPT !.pc = "idle", !.outcome = "ABORT_FATAL"]]

\* syncGmail.ts lines 216-228: no new message, but the history advanced.
CommitNoMessages(c) ==
    /\ cyc[c].pc = "commitEmpty"
    /\ WriteCursor(c)
    /\ UNCHANGED <<history, emails, attachments, drive, xfer, response>>

\* syncGmail.ts lines 275-285: the cursor update after the loop.
CommitCursor(c) ==
    /\ cyc[c].pc = "commit"
    /\ WriteCursor(c)
    /\ UNCHANGED <<history, emails, attachments, drive, xfer, response>>

\* Mutant of HandleOAuthCallback: the refresh token is stored as received.
HandleOAuthCallbackPlain ==
    /\ \E access_token \in {"", "a1"}, refresh_token \in {"", "r1"} :
          LET refresh == refresh_token
          IN  token' =
                IF access_token = "" THEN token
                ELSE IF token.exists
                THEN [token EXCEPT !.access = access_token,
                                   !.refresh = IF refresh # "" THEN refresh ELSE @,
                                   !.expiry = 1]
                ELSE IF refresh = "" THEN token
                ELSE [exists |-> TRUE, access |-> access_token, refresh |-> refresh,
                      expiry |-> 1, lastHistoryId |-> NoCursor]
    /\ UNCHANGED <<history, emails, attachments, drive, xfer, cyc, faults, response>>

\* Mutant of HandleOAuthCallback: a re-authorization writes the whole row as a
\* first authorization does (lastHistoryId null, refresh as received).
HandleOAuthCallbackOverwrites ==
    /\ \E access_token \in {"", "a1"}, refresh_token \in {"", "r1"} :
          LET refresh == IF refresh_token # "" THEN encrypt(refresh_token) ELSE ""
          IN  token' =
                IF access_token = "" THEN token
                ELSE [exists |-> TRUE, access |-> access_token, refresh |-> refresh,
                      expiry |-> 1, lastHistoryId |-> NoCursor]
    /\ UNCHANGED <<history, emails, attachments, drive, xfer, cyc, faults, response>>

\* ------------------------------------------------------ handleOAuthCallback
\* oauthController.ts lines 29-153: the code exchange returned tokens; the row
\* is updated (refresh only when a new one came) or created with lastHistoryId null.
HandleOAuthCallback ==
    /\ \E access_token \in {"", "a1"}, refresh_token \in {"", "r1"} :
          LET refresh == IF refresh_token # "" THEN encrypt(refresh_token) ELSE ""
          IN  token' =
                IF access_token = "" THEN token
                ELSE IF token.exists
                THEN [token EXCEPT !.access = access_token,
                                   !.refresh = IF refresh # "" THEN refresh ELSE @,
                                   !.expiry = 1]
                ELSE IF refresh = "" THEN token
                ELSE [exists |-> TRUE, access |-> access_token, refresh |-> refresh,
                      expiry |-> 1, lastHistoryId |-> NoCursor]
    /\ UNCHANGED <<history, emails, attachments, drive, xfer, cyc, faults, response>>

\* ------------------------------------------------------------ specification
Next ==
    \/ RemoteEvent
    \/ CronTick
    \/ SyncNow
    \/ \E c \in Cycles : ListStep(c)
    \/ \E c \in Cycles : ListFail(c)
    \/ \E c \in Cycles : FetchStep(c)
    \/ \E c \in Cycles : SaveStep(c)
    \/ \E c \in Cycles : DownloadStep(c)
    \/ \E c \in Cycles : UploadStep(c)
    \/ \E c \in Cycles : RecordStep(c)
    \/ \E c \in Cycles : CommitNoMessages(c)
    \/ \E c \in Cycles : CommitCursor(c)
    \/ HandleOAuthCallback

Spec == Init /\ [][Next]_vars


\* ------------------------------------------------------------ vocabulary
\* The step is one of invocation c.
StepBy(c) == cyc'[c] # cyc[c]

\* Invocation c has returned.
Finished(c) == cyc[c].pc = "idle" /\ cyc[c].outcome # "none"

\* Invocation c wrote lastHistoryId in this step.
Writes(c) == cyc'[c].wrote # cyc[c].wrote

\* ----------------------------------------------------------------- claims

\* C1: every change of the stored lastHistoryId replaces it with the historyId
\* a successful listNewEmailMessages call returned to the writing cycle, and
\* the new value was not issued by the remote before the value it overwrites.
C1_CursorNeverRewound ==
    [][ (token.exists /\ token'.lastHistoryId # token.lastHistoryId) =>
           /\ \E c \in Cycles :
                 /\ StepBy(c)
                 /\ cyc[c].pc \in {"commit", "commitEmpty"}
                 /\ cyc[c].newHistoryId # NoCursor
                 /\ token'.lastHistoryId = cyc[c].newHistoryId
           /\ token.lastHistoryId # NoCursor =>
                 token'.lastHistoryId >= token.lastHistoryId ]_vars

\* C2: when the listing throws, the step writes nothing to the store (the
\* stored cursor is the one the next cycle reads), the cycle has called neither
\* getEmailContent nor processAndSaveEmail, and runEmailSync has returned; a
\* cycle that starts passes the stored cursor to the lister.
C2_ListFailureLeavesCursor ==
    [][ \A c \in Cycles :
          /\ (cyc[c].pc = "list" /\ cyc'[c].outcome = "ABORT_FATAL") =>
                /\ token' = token
                /\ emails' = emails /\ attachments' = attachments /\ drive' = drive
                /\ cyc'[c].pc = "idle"
                /\ cyc'[c].fetched = <<>> /\ cyc'[c].calls = <<>> /\ cyc'[c].wrote = <<>>
                /\ cyc'[c].currentHistoryId = cyc[c].currentHistoryId
          /\ (cyc[c].pc = "idle" /\ cyc'[c].pc = "list") =>
                cyc'[c].currentHistoryId = token.lastHistoryId ]_vars

\* C2 witness: an incremental cycle whose listing threw although the
\* credential was usable, with the stored cursor still the one it listed from.
C2_Witness ==
    \E c \in Cycles :
        /\ Finished(c) /\ cyc[c].outcome = "ABORT_FATAL"
        /\ cyc[c].currentHistoryId # NoCursor
        /\ cyc[c].newHistoryId = NoCursor
        /\ AuthOK(token) /\ faults > 0
        /\ token.lastHistoryId = cyc[c].currentHistoryId
        /\ Len(history) > 0

\* C3: a cycle with a non-empty id list writes lastHistoryId only when every
\* id of its list has been attempted; every change of the stored cursor is
\* such a write.
C3_CommitAfterBatch ==
    [][ /\ \A c \in Cycles :
              (Writes(c) /\ cyc[c].messageHeaders # <<>>) =>
                  /\ Len(cyc[c].res) = Len(cyc[c].messageHeaders)
                  /\ cyc[c].idx > Len(cyc[c].messageHeaders)
        /\ (token.exists /\ token'.lastHistoryId # token.lastHistoryId) =>
              \E c \in Cycles : Writes(c) ]_vars

\* C3 witness: a cycle over two ids has written its cursor.
C3_Witness ==
    \E c \in Cycles :
        /\ Finished(c)
        /\ Len(cyc[c].messageHeaders) >= 2
        /\ cyc[c].wrote = <<cyc[c].newHistoryId>>
        /\ token.lastHistoryId = cyc[c].newHistoryId


\* The entries of invocation c's list that reached processAndSaveEmail.
RECURSIVE Processed(_, _)
Processed(headers, res) ==
    IF headers = <<>> \/ res = <<>> THEN <<>>
    ELSE (IF Head(res) \in {"fetchNull", "fetchErr", "authErr"} THEN <<>> ELSE <<Head(headers)>>)
         \o Processed(Tail(headers), Tail(res))

\* In invocation c the fetch of entry k threw and nothing else failed.
OnlyFetchErrAt(c, k) ==
    /\ k \in 1..Len(cyc[c].res)
    /\ cyc[c].res[k] = "fetchErr"
    /\ \A i \in 1..Len(cyc[c].res) : i # k => cyc[c].res[i] \in {"saved", "dup"}
    /\ cyc[c].outcome # "ABORT_FATAL"

\* C4: in a finished cycle over N ids in which getEmailContent threw for
\* exactly one id k and nothing else failed, all N ids were attempted,
\* processAndSaveEmail was called for exactly the other N-1 ids, in list order,
\* and the cycle wrote the batch's new cursor.
C4_FetchFaultIsolated ==
    \A c \in Cycles : \A k \in 1..MaxHistory + 1 :
        (Finished(c) /\ OnlyFetchErrAt(c, k)) =>
            /\ Len(cyc[c].res) = Len(cyc[c].messageHeaders)
            /\ cyc[c].fetched = cyc[c].messageHeaders
            /\ cyc[c].calls = Processed(cyc[c].messageHeaders, cyc[c].res)
            /\ Len(cyc[c].calls) = Len(cyc[c].messageHeaders) - 1
            /\ \A i \in 1..Len(cyc[c].messageHeaders) :
                   i # k => \E j \in 1..Len(cyc[c].calls) :
                                cyc[c].calls[j] = cyc[c].messageHeaders[i]
            /\ cyc[c].newHistoryId # NoCursor => cyc[c].wrote = <<cyc[c].newHistoryId>>

\* C4 witness: the fetch of the first of two ids threw, the second was
\* processed and stored, and the cursor is the batch's new cursor.
C4_Witness ==
    \E c \in Cycles :
        /\ Finished(c) /\ OnlyFetchErrAt(c, 1)
        /\ Len(cyc[c].messageHeaders) = 2
        /\ cyc[c].calls = <<cyc[c].messageHeaders[2]>>
        /\ cyc[c].newHistoryId # NoCursor
        /\ token.lastHistoryId = cyc[c].newHistoryId
        /\ cyc[c].failedProcessingCount = 1 /\ cyc[c].successfullyProcessedCount = 1

\* Every entry of invocation c's list failed (no content fetched, or not saved).
AllFailed(c) ==
    \A i \in 1..Len(cyc[c].res) : cyc[c].res[i] \in {"fetchNull", "fetchErr", "authErr", "saveErr"}

\* C5: once the loop of a cycle with a non-empty id list and a non-null new
\* cursor is over, the cycle is at the cursor update or has written exactly
\* that cursor, whatever became of the items (the write is lost only when the
\* store rejects it); the update stores the new cursor.
C5_CommitWhateverItems ==
    /\ [](\A c \in Cycles :
            (/\ cyc[c].messageHeaders # <<>>
             /\ cyc[c].newHistoryId # NoCursor
             /\ Len(cyc[c].res) = Len(cyc[c].messageHeaders)) =>
                \/ cyc[c].pc = "commit" /\ cyc[c].wrote = <<>>
                \/ /\ Finished(c)
                   /\ \/ cyc[c].outcome = "END" /\ cyc[c].wrote = <<cyc[c].newHistoryId>>
                      \/ cyc[c].outcome = "ABORT_FATAL" /\ cyc[c].wrote = <<>>)
    /\ [][ \A c \in Cycles :
             (cyc[c].pc = "commit" /\ StepBy(c) /\ cyc'[c].outcome = "END") =>
                 /\ token'.lastHistoryId = cyc[c].newHistoryId
                 /\ Writes(c) ]_vars

\* C5 witness: both items of a batch failed and the cursor was stored.
C5_Witness ==
    \E c \in Cycles :
        /\ Finished(c) /\ cyc[c].outcome = "END"
        /\ Len(cyc[c].res) = 2 /\ AllFailed(c)
        /\ cyc[c].successfullyProcessedCount = 0
        /\ cyc[c].newHistoryId # NoCursor
        /\ cyc[c].wrote = <<cyc[c].newHistoryId>>
        /\ token.lastHistoryId = cyc[c].newHistoryId


\* ------------------------------------------- serialized cycles, with progress
\* Only one invocation is in flight (a trigger takes the lowest free slot).
Serial == \A c \in Cycles : c > 1 => cyc[c].pc = "idle"

\* A pending await of invocation c resolves.
CycleStep(c) ==
    \/ ListStep(c) \/ ListFail(c) \/ FetchStep(c) \/ SaveStep(c)
    \/ DownloadStep(c) \/ UploadStep(c) \/ RecordStep(c)
    \/ CommitNoMessages(c) \/ CommitCursor(c)

\* The steps of the program when no trigger arrives while a cycle is running.
NextLive ==
    \/ RemoteEvent
    \/ CronTick /\ Serial'
    \/ SyncNow /\ Serial'
    \/ \E c \in Cycles : ListStep(c)
    \/ \E c \in Cycles : ListFail(c)
    \/ \E c \in Cycles : FetchStep(c)
    \/ \E c \in Cycles : SaveStep(c)
    \/ \E c \in Cycles : DownloadStep(c)
    \/ \E c \in Cycles : UploadStep(c)
    \/ \E c \in Cycles : RecordStep(c)
    \/ \E c \in Cycles : CommitNoMessages(c)
    \/ \E c \in Cycles : CommitCursor(c)
    \/ HandleOAuthCallback

\* Serialized cycles under the scheduling the code relies on: every pending
\* call returns or throws (the event loop resumes the cycle), node-cron keeps
\* firing, and calls fail at most MaxFaults times (failures are transient).
SpecLive ==
    /\ Init
    /\ [][NextLive]_vars
    /\ WF_vars(CronTick /\ Serial')
    /\ \A c \in Cycles : WF_vars(CycleStep(c))

\* Message m has been returned by a successful listing of a cycle.
Listed(m) ==
    \E c \in Cycles : \E i \in 1..Len(cyc[c].messageHeaders) : cyc[c].messageHeaders[i] = m

\* Message m is stored as an Item, or an Item with its Message-ID is.
StoredOrDup(m) ==
    \E i \in 1..Len(emails) :
        \/ emails[i].gmailId = m
        \/ RawEmail(m).messageId # "" /\ emails[i].messageId = RawEmail(m).messageId

Current(c) == cyc[c].messageHeaders[cyc[c].idx]

\* C7: no two stored Items share a gmailId or a non-null messageId; a save
\* whose gmailId or messageId is already stored creates nothing, returns to
\* the loop as a normal return (counted as succeeded, nothing raised) and is
\* followed by no download, upload or Attachment record for that item.
C7_IdempotentIngestion ==
    /\ [](\A i, j \in 1..Len(emails) :
            i # j => /\ emails[i].gmailId # emails[j].gmailId
                     /\ emails[i].messageId # "" => emails[i].messageId # emails[j].messageId)
    /\ [][ \A c \in Cycles :
             (/\ cyc[c].pc = "save" /\ StepBy(c)
              /\ Duplicate(parseEmailContent(RawEmail(Current(c))))) =>
                 /\ emails' = emails /\ attachments' = attachments
                 /\ drive' = drive /\ xfer' = xfer
                 /\ cyc'[c].pc \in {"fetch", "commit", "idle"}
                 /\ cyc'[c].idx = cyc[c].idx + 1
                 /\ cyc'[c].savedEmail = NoEmail
                 /\ cyc'[c].successfullyProcessedCount = cyc[c].successfullyProcessedCount + 1
                 /\ cyc'[c].failedProcessingCount = cyc[c].failedProcessingCount
                 /\ cyc'[c].outcome # "ABORT_FATAL" ]_vars

\* C7 witness: m2, a second copy of the stored m1 (same Message-ID, other
\* gmailId), was handed to processAndSaveEmail and dropped as a duplicate.
C7_Witness ==
    \E c \in Cycles : \E i \in 1..Len(cyc[c].res) :
        /\ cyc[c].res[i] = "dup"
        /\ cyc[c].messageHeaders[i] = "m2"
        /\ \E e \in 1..Len(emails) : emails[e].gmailId = "m1"
        /\ \A e \in 1..Len(emails) : emails[e].gmailId # "m2"

\* C8 (as claimed): at most one runEmailSync cycle is in flight.
C8_NoOverlap == Cardinality({c \in Cycles : cyc[c].pc # "idle"}) <= 1

\* The part with attachmentId a is being transferred by some invocation.
InFlight(a) ==
    \E c \in Cycles :
        /\ cyc[c].pc \in {"download", "upload", "record"}
        /\ attachmentsToProcess(Current(c))[cyc[c].partIdx].attachmentId = a

HasRecord(a) == \E i \in 1..Len(attachments) : attachments[i].attachmentId = a

\* The download of part a returned data / its upload created the Drive file.
Downloaded(a) == xfer[a] \in {"downloaded", "uploaded", "ulErr", "recorded", "recErr"}

Uploaded(a) == xfer[a] \in {"uploaded", "recorded", "recErr"}

\* C9 (as claimed): for every part that is not in the middle of its transfer,
\* an Attachment record exists if and only if its download and its upload
\* both succeeded.
C9_RecordIffTransferred ==
    \A a \in AttIds : ~InFlight(a) => (HasRecord(a) <=> (Downloaded(a) /\ Uploaded(a)))

\* C9 (amended): an Attachment record exists only for a part whose download
\* and upload both succeeded, it names the Drive file of that upload, and
\* there is at most one per part; a part whose download and upload both
\* succeeded has a record unless prisma.attachment.create itself threw.
C9_RecordOnlyIfTransferred ==
    \A a \in AttIds :
        /\ HasRecord(a) => Downloaded(a) /\ Uploaded(a)
        /\ \A i, j \in 1..Len(attachments) :
               attachments[i].attachmentId = a =>
                   /\ attachments[j].attachmentId = a => i = j
                   /\ attachments[i].driveId \in 1..Len(drive)
                   /\ drive[attachments[i].driveId].name = attachments[i].filename
                   /\ attachments[i].emailId \in 1..Len(emails)
        /\ (~InFlight(a) /\ Downloaded(a) /\ Uploaded(a) /\ ~HasRecord(a)) =>
               xfer[a] = "recErr"
        /\ (~InFlight(a) /\ xfer[a] = "recorded") => HasRecord(a)

\* C9 witness: one part was uploaded and recorded, another was uploaded and
\* its record creation threw: Drive holds two files, the table one row.
C9_Witness ==
    /\ \E a \in AttIds : xfer[a] = "recErr" /\ ~HasRecord(a) /\ ~InFlight(a)
    /\ \E a \in AttIds : xfer[a] = "recorded" /\ HasRecord(a)
    /\ Len(drive) = 2 /\ Len(attachments) = 1

\* The result tags of a part whose processing is over.
PartOver == {"malformed", "dlNone", "dlErr", "ulErr", "recErr", "recorded"}

\* C10: a step in which the download, the upload or the record creation of a
\* part fails leaves the Items as they are and raises nothing: the same
\* invocation goes on to the next well-formed part, or, after the last part,
\* counts the item as succeeded and goes on with the batch; once
\* processAndSaveEmail has returned for a saved item every one of its parts
\* was attempted or skipped as malformed, and a finished cycle has attempted
\* every id of its batch.
C10_PartIsolation ==
    /\ [](\A c \in Cycles :
            /\ \A i \in 1..Len(cyc[c].res) :
                  cyc[c].res[i] = "saved" =>
                      LET parts == attachmentsToProcess(cyc[c].messageHeaders[i])
                      IN  \A k \in 1..Len(parts) :
                              /\ xfer[parts[k].attachmentId] \in PartOver
                              /\ xfer[parts[k].attachmentId] = "malformed"
                                     <=> Malformed(parts[k])
            /\ (Finished(c) /\ cyc[c].messageHeaders # <<>>) =>
                  Len(cyc[c].res) = Len(cyc[c].messageHeaders))
    /\ [][ \A c \in Cycles :
             LET parts == attachmentsToProcess(Current(c))
                 a     == parts[cyc[c].partIdx].attachmentId
                 later == {k \in (cyc[c].partIdx + 1)..Len(parts) : ~Malformed(parts[k])}
             IN  (/\ cyc[c].pc \in {"download", "upload", "record"} /\ StepBy(c)
                  /\ xfer'[a] \in {"dlNone", "dlErr", "ulErr", "recErr"}) =>
                     /\ emails' = emails
                     /\ cyc[c].savedEmail \in 1..Len(emails)
                     /\ cyc'[c].outcome # "ABORT_FATAL"
                     /\ cyc'[c].failedProcessingCount = cyc[c].failedProcessingCount
                     /\ IF later # {}
                        THEN /\ cyc'[c].pc = "download"
                             /\ cyc'[c].idx = cyc[c].idx
                             /\ cyc'[c].partIdx \in later
                             /\ \A k \in later : cyc'[c].partIdx <= k
                        ELSE /\ cyc'[c].res = Append(cyc[c].res, "saved")
                             /\ cyc'[c].successfullyProcessedCount =
                                    cyc[c].successfullyProcessedCount + 1
                             /\ cyc'[c].idx = cyc[c].idx + 1
                             /\ cyc'[c].pc =
                                    IF cyc'[c].idx <= Len(cyc[c].messageHeaders)
                                    THEN "fetch"
                                    ELSE IF cyc[c].newHistoryId # NoCursor
                                    THEN "commit" ELSE "idle" ]_vars

\* C10 witness: the download of m1's first attachment failed, its malformed
\* part was skipped, its last part was transferred and recorded, m1 is stored,
\* and the cycle went on to process the next id of the batch.
C10_Witness ==
    \E c \in Cycles :
        /\ Len(cyc[c].res) = 2
        /\ cyc[c].messageHeaders[1] = "m1" /\ cyc[c].res[1] = "saved"
        /\ xfer["att1"] \in {"dlNone", "dlErr"}
        /\ xfer["att3"] = "malformed"
        /\ xfer["att2"] = "recorded" /\ HasRecord("att2")
        /\ \E e \in 1..Len(emails) : emails[e].gmailId = "m1"
        /\ Len(cyc[c].calls) = 2

\* The steps of processAndSaveEmail's attachment loop.
Pipeline == {"download", "upload", "record"}

\* An Email row with gmailId m exists.
Stored(m) == \E e \in 1..Len(emails) : emails[e].gmailId = m

\* The attachment ids of the parts of message m the loop goes over.
PartsOf(m) ==
    {attachmentsToProcess(m)[k].attachmentId : k \in 1..Len(attachmentsToProcess(m))}

\* C11: the attachment loop of an Item is entered only by the save step that
\* created the Item's row, in the invocation that created it, and by no other
\* invocation at the same time; a save of an id that is already stored
\* changes no part, no Drive file and no Attachment record and never enters
\* the loop; every download, upload or record is a step of the loop of the
\* invocation that created the row; and a part whose processing is over is
\* never processed again.
C11_AttachmentsOncePerItem ==
    /\ [](\A c \in Cycles :
            cyc[c].pc \in Pipeline =>
                /\ cyc[c].savedEmail \in 1..Len(emails)
                /\ emails[cyc[c].savedEmail].gmailId = Current(c)
                /\ \A d \in Cycles :
                      (d # c /\ cyc[d].pc \in Pipeline) => Current(d) # Current(c))
    /\ [][ /\ \A c \in Cycles :
                /\ (cyc[c].pc = "save" /\ StepBy(c) /\ Stored(Current(c))) =>
                      /\ emails' = emails /\ xfer' = xfer
                      /\ drive' = drive /\ attachments' = attachments
                      /\ cyc'[c].pc \notin Pipeline
                /\ (StepBy(c) /\ cyc[c].pc \notin Pipeline /\ cyc'[c].pc \in Pipeline) =>
                      /\ cyc[c].pc = "save" /\ ~Stored(Current(c))
                      /\ Len(emails') = Len(emails) + 1
                      /\ emails'[Len(emails')].gmailId = Current(c)
                      /\ cyc'[c].savedEmail = Len(emails')
           /\ \A a \in AttIds :
                xfer'[a] # xfer[a] =>
                    /\ xfer[a] \notin PartOver
                    /\ \E c \in Cycles :
                          /\ StepBy(c)
                          /\ a \in PartsOf(Current(c))
                          /\ \/ cyc[c].pc \in Pipeline
                             \/ cyc[c].pc = "save" /\ ~Stored(Current(c))
           /\ (drive' # drive \/ attachments' # attachments) =>
                \E c \in Cycles : StepBy(c) /\ cyc[c].pc \in Pipeline ]_vars

\* C11 witness: m1 was stored and its attachment b.png recorded, a cycle that
\* listed only m1 found it already stored, and there is still exactly one
\* Attachment record and one Drive file for the part.
C11_Witness ==
    \E c \in Cycles :
        /\ cyc[c].messageHeaders = <<"m1">>
        /\ cyc[c].res = <<"dup">>
        /\ Stored("m1")
        /\ xfer["att2"] = "recorded"
        /\ Cardinality({i \in 1..Len(attachments) : attachments[i].attachmentId = "att2"}) = 1
        /\ Cardinality({i \in 1..Len(drive) : drive[i].name = "b.png"}) = 1

\* ------------------------------------------------ the process stops and restarts
\* index.ts: the invocations of runEmailSync live in the server process and
\* nothing of them is persisted; when the process stops while a cycle is in
\* flight the cycle is gone at whatever await it had reached, and the
\* database, Drive and the mailbox stay as they are.
ProcessStops ==
    /\ \E c \in Cycles : cyc[c].pc # "idle"
    /\ cyc' = [c \in Cycles |-> IdleCycle]
    /\ UNCHANGED <<token, history, emails, attachments, drive, xfer, faults, response>>

\* Serialized cycles of a process that may stop at any await and be restarted.
NextCrash ==
    \/ NextLive
    \/ ProcessStops

SpecCrash == Init /\ [][NextCrash]_vars

\* Message m is stored, no invocation is in its attachment loop, and one of
\* its parts was neither transferred to the end nor given up.
Orphaned(m) ==
    /\ Stored(m)
    /\ \E a \in PartsOf(m) : xfer[a] \notin PartOver
    /\ \A c \in Cycles : cyc[c].pc \in Pipeline => Current(c) # m

\* C12: once the process has stopped between the store of an Item and the end
\* of its attachment loop, the Item stays as it is: every later save of its id
\* creates nothing and returns to the loop without entering the attachment
\* loop (a unique-constraint hit, or the database call failing), no part of
\* it is downloaded, uploaded or recorded any more, and a part without a
\* record never gets one.
C12_StoppedItemNeverCompleted ==
    [][ \A m \in Msgs :
          Orphaned(m) =>
              /\ Orphaned(m)'
              /\ \A a \in PartsOf(m) :
                    /\ xfer'[a] = xfer[a]
                    /\ HasRecord(a)' <=> HasRecord(a)
              /\ \A c \in Cycles :
                    (/\ cyc[c].pc = "save" /\ Current(c) = m
                     /\ cyc'[c].calls = Append(cyc[c].calls, m)) =>
                        /\ Duplicate(parseEmailContent(RawEmail(m)))
                        /\ emails' = emails
                        /\ cyc'[c].pc \notin Pipeline
                        /\ cyc'[c].res \in {Append(cyc[c].res, "dup"),
                                           Append(cyc[c].res, "saveErr")}
                        /\ cyc'[c].res[Len(cyc'[c].res)] = "saveErr" => faults' = faults + 1 ]_vars

\* C12 witness: the process stopped after m1 was stored and its first
\* attachment uploaded but not recorded; a later cycle listed m1 again, its
\* save was a duplicate, and a.pdf and b.png are still without a record.
C12_Witness ==
    \E c \in Cycles :
        /\ Orphaned("m1")
        /\ xfer["att1"] = "uploaded" /\ xfer["att2"] = "none"
        /\ ~HasRecord("att1") /\ ~HasRecord("att2")
        /\ cyc[c].messageHeaders = <<"m1">>
        /\ cyc[c].res = <<"dup">>
        /\ Finished(c)

\* Invocation c has loaded the credential (it is past the early returns).
Loaded(c) == cyc[c].pc # "idle" \/ cyc[c].outcome \in {"END", "ABORT_FATAL"}

\* C13: a cycle that read lastHistoryId null calls the lister without a
\* cursor: the listing is the fallback listing and brings no historyId; the
\* cycle never reaches a cursor update and none of its steps changes the
\* OAuthToken row; lastHistoryId is null while it runs and when it has ended.
C13_FallbackWritesNothing ==
    /\ [](\A c \in Cycles :
            (Loaded(c) /\ cyc[c].currentHistoryId = NoCursor) =>
                /\ cyc[c].newHistoryId = NoCursor
                /\ cyc[c].pc \notin {"commit", "commitEmpty"}
                /\ cyc[c].wrote = <<>>
                /\ token.exists => token.lastHistoryId = NoCursor)
    /\ [][ \A c \in Cycles :
             (Loaded(c) /\ cyc[c].currentHistoryId = NoCursor /\ StepBy(c)) =>
                 /\ token' = token
                 /\ (cyc[c].pc = "list" /\ cyc'[c].pc # "idle") =>
                        cyc'[c].messageHeaders = FallbackList(history).messages ]_vars

\* C13 witness: a cycle that started without a cursor listed two messages in
\* fallback mode (newest first), stored the first, has ended normally, and
\* lastHistoryId is still null.
C13_Witness ==
    \E c \in Cycles :
        /\ Finished(c) /\ cyc[c].outcome = "END"
        /\ cyc[c].currentHistoryId = NoCursor
        /\ cyc[c].messageHeaders = <<"m2", "m1">>
        /\ history = <<"m1", "m2">>
        /\ cyc[c].res = <<"saved", "dup">>
        /\ token.exists /\ token.lastHistoryId = NoCursor

\* C14 (as claimed): after a cycle that started without a cursor has run in
\* fallback mode and ended, a later cycle calls the lister in incremental
\* mode, with a cursor.
C14_FallbackThenIncremental ==
    (\E c \in Cycles : Finished(c) /\ cyc[c].outcome = "END"
                       /\ cyc[c].currentHistoryId = NoCursor)
        ~> (\E c \in Cycles : Loaded(c) /\ cyc[c].currentHistoryId # NoCursor)

\* The listing of invocation c returned no message.
EmptyListed(c) ==
    /\ cyc[c].messageHeaders = <<>>
    /\ \/ cyc[c].pc = "commitEmpty"
       \/ cyc[c].pc = "idle" /\ cyc[c].outcome = "END"
       \/ cyc[c].pc = "idle" /\ cyc[c].outcome = "ABORT_FATAL" /\ cyc[c].newHistoryId # NoCursor

\* The empty-list branch has to write: the listing brought a historyId that
\* is not the one invocation c read at its start.
EmptyMustWrite(c) ==
    cyc[c].newHistoryId # NoCursor /\ cyc[c].newHistoryId # cyc[c].currentHistoryId

\* C15: a cycle whose listing returned no message calls neither
\* getEmailContent nor processAndSaveEmail; it goes to the cursor update
\* exactly when the returned historyId is non-null and differs from the
\* cursor it read at its start, and then writes that historyId (unless the
\* update itself throws); otherwise it ends without a write.
C15_EmptyListing ==
    /\ [](\A c \in Cycles :
            EmptyListed(c) =>
                /\ cyc[c].fetched = <<>> /\ cyc[c].calls = <<>> /\ cyc[c].res = <<>>
                /\ cyc[c].pc = "commitEmpty" => EmptyMustWrite(c)
                /\ cyc[c].outcome = "ABORT_FATAL" => EmptyMustWrite(c) /\ cyc[c].wrote = <<>>
                /\ cyc[c].outcome = "END" =>
                      cyc[c].wrote = IF EmptyMustWrite(c) THEN <<cyc[c].newHistoryId>>
                                     ELSE <<>>)
    /\ [][ \A c \in Cycles :
             /\ (cyc[c].pc = "list" /\ StepBy(c) /\ EmptyListed(c)') =>
                   /\ token' = token /\ emails' = emails
                   /\ cyc'[c].pc = IF EmptyMustWrite(c)' THEN "commitEmpty" ELSE "idle"
             /\ (cyc[c].pc = "commitEmpty" /\ StepBy(c)) =>
                   /\ emails' = emails
                   /\ cyc'[c].pc = "idle"
                   /\ cyc'[c].outcome = "END" =>
                         /\ token'.lastHistoryId = cyc[c].newHistoryId
                         /\ token.lastHistoryId # cyc[c].newHistoryId
                                => token'.lastHistoryId # token.lastHistoryId
                   /\ cyc'[c].outcome # "END" => token' = token ]_vars

\* C15 witness: with cursor 0 stored, one cycle listed nothing and got back
\* historyId 0: it ended without a write; the mailbox then changed without a
\* new message, and another cycle listed nothing, fetched nothing and wrote
\* the new historyId 1.
C15_Witness ==
    \E c, d \in Cycles :
        /\ Finished(c) /\ cyc[c].outcome = "END"
        /\ cyc[c].messageHeaders = <<>> /\ cyc[c].fetched = <<>> /\ cyc[c].calls = <<>>
        /\ cyc[c].currentHistoryId = 0 /\ cyc[c].newHistoryId = 1
        /\ cyc[c].wrote = <<1>>
        /\ token.lastHistoryId = 1
        /\ emails = <<>>
        /\ Finished(d) /\ cyc[d].outcome = "END"
        /\ cyc[d].messageHeaders = <<>>
        /\ cyc[d].currentHistoryId = 0 /\ cyc[d].newHistoryId = 0
        /\ cyc[d].wrote = <<>>

CredentialDeleted ==
    /\ token.exists
    /\ token' = NoToken
    /\ UNCHANGED <<history, emails, attachments, drive, xfer, cyc, faults, response>>

\* Serialized cycles with a credential row that can be deleted and re-created.
NextReauth ==
    \/ NextLive
    \/ CredentialDeleted

SpecReauth == Init /\ [][NextReauth]_vars

\* getAuthenticatedClient threw in a per-item fetch of invocation c.
AuthFailedIn(c) == \E i \in 1..Len(cyc[c].res) : cyc[c].res[i] = "authErr"

\* C17 (as claimed): a cycle in which getAuthenticatedClient has failed makes
\* no step that changes lastHistoryId.
C17_AuthFailureKeepsCursor ==
    [][ \A c \in Cycles :
          (AuthFailedIn(c) /\ StepBy(c)) => token'.lastHistoryId = token.lastHistoryId ]_vars

\* An exception was raised in the pipeline of entry i of invocation c: the
\* fetch threw, prisma.email.create threw for another reason than a unique
\* constraint, or the download, the upload or the record of a part threw.
HitException(c, i) ==
    \/ cyc[c].res[i] \in {"fetchErr", "authErr", "saveErr"}
    \/ /\ cyc[c].res[i] = "saved"
       /\ \E a \in PartsOf(cyc[c].messageHeaders[i]) : xfer[a] \in {"dlErr", "ulErr", "recErr"}

\* C18 (as claimed): every entry whose pipeline hit an exception is counted
\* in failedProcessingCount and not in successfullyProcessedCount.
C18_ExceptionsCountedFailed ==
    \A c \in Cycles :
        LET hit == {i \in 1..Len(cyc[c].res) : HitException(c, i)}
        IN  /\ cyc[c].failedProcessingCount >= Cardinality(hit)
            /\ cyc[c].successfullyProcessedCount <= Len(cyc[c].res) - Cardinality(hit)

\* C19: a fetch answered with 404 comes back as null: the step changes no
\* Email row, no transfer, no Drive file, no Attachment record and not the
\* OAuthToken row, processAndSaveEmail is not called for the id, nothing is
\* raised, and the same invocation goes on with the next id or, after the
\* last one, with the cursor update; a finished cycle with such an id has
\* attempted every id of its batch, has passed exactly the others to
\* processAndSaveEmail, and has written the new historyId unless the update
\* itself threw.
C19_NotFoundSkipped ==
    /\ [](\A c \in Cycles :
            (Finished(c) /\ \E i \in 1..Len(cyc[c].res) : cyc[c].res[i] = "fetchNull") =>
                /\ Len(cyc[c].res) = Len(cyc[c].messageHeaders)
                /\ cyc[c].fetched = cyc[c].messageHeaders
                /\ cyc[c].calls = Processed(cyc[c].messageHeaders, cyc[c].res)
                /\ \A i \in 1..Len(cyc[c].res) :
                      cyc[c].res[i] = "fetchNull" =>
                          \A k \in 1..Len(cyc[c].calls) :
                              cyc[c].calls[k] = cyc[c].messageHeaders[i] =>
                                  \E j \in 1..Len(cyc[c].res) :
                                      /\ j # i
                                      /\ cyc[c].messageHeaders[j] = cyc[c].messageHeaders[i]
                /\ cyc[c].outcome \in {"END", "ABORT_FATAL"}
                /\ (cyc[c].outcome = "END" /\ cyc[c].newHistoryId # NoCursor) =>
                      cyc[c].wrote = <<cyc[c].newHistoryId>>
                /\ cyc[c].outcome = "ABORT_FATAL" =>
                      cyc[c].newHistoryId # NoCursor /\ cyc[c].wrote = <<>>)
    /\ [][ \A c \in Cycles :
             (/\ cyc[c].pc = "fetch"
              /\ cyc'[c].res = Append(cyc[c].res, "fetchNull")) =>
                 /\ UNCHANGED <<token, emails, attachments, drive, xfer>>
                 /\ cyc'[c].calls = cyc[c].calls
                 /\ cyc'[c].fetched = Append(cyc[c].fetched, Current(c))
                 /\ cyc'[c].idx = cyc[c].idx + 1
                 /\ cyc'[c].outcome # "ABORT_FATAL"
                 /\ cyc'[c].pc =
                        IF cyc[c].idx < Len(cyc[c].messageHeaders) THEN "fetch"
                        ELSE IF cyc[c].newHistoryId # NoCursor THEN "commit" ELSE "idle" ]_vars

\* C19 witness: of the batch m1, m2 the fetch of m1 was answered with 404;
\* m1 was skipped, m2 was stored, and the cycle wrote the new historyId 2.
C19_Witness ==
    \E c \in Cycles :
        /\ Finished(c) /\ cyc[c].outcome = "END"
        /\ cyc[c].messageHeaders = <<"m1", "m2">>
        /\ cyc[c].res = <<"fetchNull", "saved">>
        /\ cyc[c].calls = <<"m2">>
        /\ cyc[c].wrote = <<2>> /\ token.lastHistoryId = 2
        /\ Stored("m2") /\ ~Stored("m1")
        /\ xfer["att1"] = "none"

\* C20: within an invocation the ids are fetched in the order of the listing,
\* each position once, and the fetch of a position is issued only when every
\* earlier position has its result: while a fetch is pending all earlier
\* entries are over, while processAndSaveEmail runs for an entry no later
\* entry has been fetched, and processAndSaveEmail was called for exactly the
\* fetched entries whose fetch returned content, in order; when no fetch of
\* the batch failed and the loop is over it was called once per listed entry.
C20_InOrderOneAtATime ==
    /\ [](\A c \in Cycles :
            LET cy == cyc[c]
                n  == Len(cy.messageHeaders)
                done == Processed(cy.messageHeaders, cy.res)
            IN  (Loaded(c) /\ n > 0) =>
                    /\ cy.pc = "fetch" =>
                          /\ cy.idx \in 1..n
                          /\ Len(cy.res) = cy.idx - 1
                          /\ cy.fetched = SubSeq(cy.messageHeaders, 1, cy.idx - 1)
                          /\ cy.calls = done
                    /\ cy.pc = "save" =>
                          /\ cy.idx \in 1..n
                          /\ Len(cy.res) = cy.idx - 1
                          /\ cy.fetched = SubSeq(cy.messageHeaders, 1, cy.idx)
                          /\ cy.calls = done
                    /\ cy.pc \in Pipeline =>
                          /\ cy.idx \in 1..n
                          /\ Len(cy.res) = cy.idx - 1
                          /\ cy.fetched = SubSeq(cy.messageHeaders, 1, cy.idx)
                          /\ cy.calls = Append(done, cy.messageHeaders[cy.idx])
                    /\ (cy.pc = "commit" \/ Finished(c)) =>
                          /\ Len(cy.res) = n
                          /\ cy.fetched = cy.messageHeaders
                          /\ cy.calls = done
                          /\ (\A i \in 1..n : cy.res[i] \notin {"fetchNull", "fetchErr", "authErr"})
                                => cy.calls = cy.messageHeaders)
    /\ [][ \A c \in Cycles :
             /\ (cyc'[c].fetched # cyc[c].fetched /\ cyc[c].pc # "idle") =>
                   /\ cyc[c].pc = "fetch"
                   /\ Len(cyc[c].res) = Len(cyc[c].fetched)
                   /\ cyc'[c].fetched =
                          Append(cyc[c].fetched, cyc[c].messageHeaders[Len(cyc[c].fetched) + 1])
             /\ (cyc'[c].calls # cyc[c].calls /\ cyc[c].pc # "idle") =>
                   /\ cyc[c].pc = "save"
                   /\ cyc'[c].calls =
                          Append(cyc[c].calls, cyc[c].fetched[Len(cyc[c].fetched)]) ]_vars

\* C20 witness: a finished cycle listed m1, m2, fetched them in that order
\* without a failure, and called processAndSaveEmail for m1 and then for m2.
C20_Witness ==
    \E c \in Cycles :
        /\ Finished(c) /\ cyc[c].outcome = "END"
        /\ cyc[c].messageHeaders = <<"m1", "m2">>
        /\ cyc[c].fetched = <<"m1", "m2">>
        /\ cyc[c].calls = <<"m1", "m2">>
        /\ cyc[c].res = <<"saved", "dup">>

\* ------------------------------------------------ one listing call, long streams
\* Length of the longest change stream a listing call is applied to.
MaxStream == 620

\* A change stream of n events, each adding one message (ids "1", "2", ...).
LongStream(n) == [i \in 1..n |-> ToString(i)]

\* The cursors a listing call is started with: none, or one stored when the
\* stream was shorter.
ListingCursors(n) == {NoCursor} \cup {k \in {0, 1, 99, 100, 101} : k <= n}

\* runEmailSync has loaded a usable credential and is about to call
\* listNewEmailMessages; nothing is stored yet.
InitListing ==
    \E n \in 0..MaxStream : \E k \in ListingCursors(n) :
        /\ token = [exists |-> TRUE, access |-> "a0", refresh |-> "enc-r1",
                    expiry |-> 0, lastHistoryId |-> k]
        /\ history = LongStream(n)
        /\ emails = <<>>
        /\ attachments = <<>>
        /\ drive = <<>>
        /\ xfer = [a \in AttIds |-> "none"]
        /\ cyc = [c \in Cycles |->
                    IF c = 1 THEN [IdleCycle EXCEPT !.pc = "list", !.currentHistoryId = k]
                    ELSE IdleCycle]
        /\ faults = 0
        /\ response = "none"

\* The listing call of that invocation returns.
NextListing == \E c \in Cycles : ListStep(c)

SpecListing == InitListing /\ [][NextListing]_vars

\* C21 (as claimed): an incremental listing returns every message added
\* between the cursor it was given and the historyId it returns, in stream
\* order, and that historyId is the mailbox's current one.
C21_IncrementalComplete ==
    [][ \A c \in Cycles :
          (cyc[c].pc = "list" /\ StepBy(c) /\ cyc[c].currentHistoryId # NoCursor) =>
              /\ cyc'[c].newHistoryId = Len(history)
              /\ cyc'[c].messageHeaders =
                     MessagesOf(SubSeq(history, cyc[c].currentHistoryId + 1,
                                       cyc'[c].newHistoryId)) ]_vars

\* gmailService.ts lines 83-109: the value of currentPage when the do-while
\* over the messages.list pages is left, the number of page requests issued.
RECURSIVE FallbackRequests(_, _, _)
FallbackRequests(inbox, offset, currentPage) ==
    LET nextPageToken == IF offset + maxResults < Len(inbox) THEN offset + maxResults ELSE 0
    IN  IF nextPageToken # 0 /\ currentPage < MAX_INITIAL_FETCH_PAGES
        THEN FallbackRequests(inbox, nextPageToken, currentPage + 1)
        ELSE currentPage

\* The remote's answer to messages.list: the mailbox's messages, newest first.
Inbox == Reverse(MessagesOf(history))

\* C22: a listing call without a cursor issues at least one and at most
\* MAX_INITIAL_FETCH_PAGES messages.list requests, one per page the remote
\* offers up to that limit, and returns, also when every page came with a
\* next-page token, the ids of the requested pages in page order (the first
\* MAX_INITIAL_FETCH_PAGES * maxResults of the remote's list, or all of it when
\* it is shorter) and no historyId.
C22_FallbackBounded ==
    [][ \A c \in Cycles :
          (cyc[c].pc = "list" /\ StepBy(c) /\ cyc[c].currentHistoryId = NoCursor) =>
              LET requests == FallbackRequests(Inbox, 0, 1)
              IN  /\ requests \in 1..MAX_INITIAL_FETCH_PAGES
                  /\ requests * maxResults >= Len(Inbox)
                         \/ requests = MAX_INITIAL_FETCH_PAGES
                  /\ (requests - 1) * maxResults < Len(Inbox) \/ requests = 1
                  /\ cyc'[c].messageHeaders =
                         SubSeq(Inbox, 1, Min(Len(Inbox), requests * maxResults))
                  /\ Len(cyc'[c].messageHeaders) <= MAX_INITIAL_FETCH_PAGES * maxResults
                  /\ cyc'[c].newHistoryId = NoCursor ]_vars

\* C22 witness: the mailbox holds more than MAX_INITIAL_FETCH_PAGES pages; the
\* fallback listing has returned exactly the five newest pages and no
\* historyId, and the cycle goes on to fetch them.
C22_Witness ==
    \E c \in Cycles :
        /\ Len(history) = MAX_INITIAL_FETCH_PAGES * maxResults + 3
        /\ cyc[c].currentHistoryId = NoCursor
        /\ cyc[c].pc = "fetch"
        /\ Len(cyc[c].messageHeaders) = MAX_INITIAL_FETCH_PAGES * maxResults
        /\ cyc[c].messageHeaders[1] = ToString(Len(history))
        /\ cyc[c].messageHeaders[MAX_INITIAL_FETCH_PAGES * maxResults] = "4"
        /\ cyc[c].newHistoryId = NoCursor

\* ------------------------------------------------------------ token rotation
\* googleAuth.ts lines 41-62: while a request of invocation c is pending, its
\* client refreshes the access token and emits "tokens"; the listener builds
\* updateData: access and expiry when the event carries both, the encrypted
\* refresh token when it carries one. An empty updateData issues no write.
TokensEvent(c) ==
    /\ cyc[c].pc \in {"list", "fetch", "download", "upload"}
    /\ AuthOK(token)
    /\ cyc[c].pendingTokens = NoUpdate
    /\ \E access_token \in {"", "a2"}, expiry_date \in {0, 2}, refresh_token \in {"", "r2"} :
          LET both == access_token # "" /\ expiry_date # 0
              updateData == [access  |-> IF both THEN access_token ELSE "",
                             expiry  |-> IF both THEN expiry_date ELSE 0,
                             refresh |-> IF refresh_token # "" THEN encrypt(refresh_token)
                                         ELSE ""]
          IN  /\ updateData # NoUpdate
              /\ cyc' = [cyc EXCEPT ![c].pendingTokens = updateData,
                                     ![c].tokenSeen = token]
    /\ UNCHANGED <<token, history, emails, attachments, drive, xfer, faults, response>>

\* Mutant of PersistTokens: the update writes the refresh field of updateData
\* also when the event carried no refresh token.
PersistTokensAllFields(c) ==
    LET updateData == cyc[c].pendingTokens
    IN  /\ updateData # NoUpdate
        /\ \E dbOk \in BOOLEAN :
              /\ dbOk => token.exists
              /\ ~dbOk => ~token.exists \/ CanFail
              /\ faults' = IF dbOk \/ ~token.exists THEN faults ELSE faults + 1
              /\ token' = IF ~dbOk THEN token
                          ELSE [token EXCEPT
                                  !.access  = IF updateData.access # "" THEN updateData.access ELSE @,
                                  !.expiry  = IF updateData.access # "" THEN updateData.expiry ELSE @,
                                  !.refresh = updateData.refresh]
        /\ cyc' = [cyc EXCEPT ![c].pendingTokens = NoUpdate, ![c].tokenSeen = NoToken]
        /\ UNCHANGED <<history, emails, attachments, drive, xfer, response>>

\* googleAuth.ts lines 64-82: prisma.oAuthToken.update({where: {id: 1}, data:
\* updateData}) is executed: the fields of updateData are written, or the
\* update throws (no row, database error) and the listener's catch logs it.
PersistTokens(c) ==
    LET updateData == cyc[c].pendingTokens
    IN  /\ updateData # NoUpdate
        /\ \E dbOk \in BOOLEAN :
              /\ dbOk => token.exists
              /\ ~dbOk => ~token.exists \/ CanFail
              /\ faults' = IF dbOk \/ ~token.exists THEN faults ELSE faults + 1
              /\ token' = IF ~dbOk THEN token
                          ELSE [token EXCEPT
                                  !.access  = IF updateData.access # "" THEN updateData.access ELSE @,
                                  !.expiry  = IF updateData.access # "" THEN updateData.expiry ELSE @,
                                  !.refresh = IF updateData.refresh # "" THEN updateData.refresh ELSE @]
        /\ cyc' = [cyc EXCEPT ![c].pendingTokens = NoUpdate, ![c].tokenSeen = NoToken]
        /\ UNCHANGED <<history, emails, attachments, drive, xfer, response>>

\* Serialized cycles whose clients rotate tokens.
NextRotate ==
    \/ NextLive
    \/ \E c \in Cycles : TokensEvent(c)
    \/ \E c \in Cycles : PersistTokens(c)

SpecRotate == Init /\ [][NextRotate]_vars

\* The update of the "tokens" listener of invocation c is executed in this step.
Persists(c) ==
    /\ cyc[c].pendingTokens # NoUpdate
    /\ cyc' = [cyc EXCEPT ![c].pendingTokens = NoUpdate, ![c].tokenSeen = NoToken]

PlainRefreshTokens == {"r1", "r2"}

\* C24: the stored refresh field never holds a plaintext refresh token, and
\* every step that changes it (the creation of the row, a re-authorization,
\* a rotation) stores the output of encrypt for an issued refresh token,
\* which decrypt turns back into that token.
C24_RefreshStoredEncrypted ==
    /\ [](token.refresh \notin PlainRefreshTokens)
    /\ [][ token'.refresh # token.refresh =>
             /\ \E r \in PlainRefreshTokens : token'.refresh = encrypt(r)
             /\ Decryptable(token'.refresh)
             /\ decrypt(token'.refresh) \in PlainRefreshTokens
             /\ encrypt(decrypt(token'.refresh)) = token'.refresh ]_vars

\* C24 witness: a rotation stored the new refresh token r2 encrypted, and a
\* later re-authorization without a new refresh token wrote access and
\* expiry and kept it.
C24_Witness ==
    /\ token.exists
    /\ token.refresh = encrypt("r2")
    /\ decrypt(token.refresh) = "r2"
    /\ token.access = "a1" /\ token.expiry = 1

\* C25: getAuthenticatedClient throws and yields no client when the row is
\* absent, when its refresh value is empty, or when that value cannot be
\* decrypted; otherwise it returns a client with the stored access token, the
\* refresh token whose encryption is stored, and the stored expiry. A call of
\* an invocation (at the listing, a fetch, a download or an upload) leaves
\* the OAuthToken row as it is, and the call goes through only with a client;
\* a listing without one ends the cycle.
C25_AuthenticatedClient ==
    /\ [](LET r == getAuthenticatedClient(token)
          IN  IF ~token.exists \/ token.refresh = "" \/ ~Decryptable(token.refresh)
              THEN r.error # "" /\ r.client = NoClient
              ELSE /\ r.error = ""
                   /\ r.client.access_token = token.access
                   /\ r.client.expiry_date = token.expiry
                   /\ r.client.refresh_token \in PlainRefreshTokens
                   /\ encrypt(r.client.refresh_token) = token.refresh)
    /\ [][ \A c \in Cycles :
             (/\ cyc[c].pc \in {"list", "fetch", "download", "upload"}
              /\ cyc'[c].pc # cyc[c].pc \/ cyc'[c].idx # cyc[c].idx
                    \/ cyc'[c].partIdx # cyc[c].partIdx) =>
                 /\ token' = token
                 /\ getAuthenticatedClient(token).error # "" =>
                       /\ cyc[c].pc = "list" =>
                             cyc'[c].pc = "idle" /\ cyc'[c].outcome = "ABORT_FATAL"
                       /\ cyc[c].pc = "fetch" => cyc'[c].res = Append(cyc[c].res, "authErr")
                       /\ cyc'[c].pc \notin {"save", "upload", "record"}
                       /\ UNCHANGED <<emails, attachments, drive>> ]_vars

\* C25 witness: the stored refresh value cannot be decrypted; the listing
\* call of a cycle failed in getAuthenticatedClient and the cycle ended
\* without a client, with the row as it was.
C25_Witness ==
    \E c \in Cycles :
        /\ token.exists /\ token.refresh = "garbage"
        /\ getAuthenticatedClient(token).error = "Failed to decrypt refresh token"
        /\ Finished(c) /\ cyc[c].outcome = "ABORT_FATAL"
        /\ cyc[c].messageHeaders = <<>>
        /\ faults = 0

\* C26 (as claimed): a write to the OAuthToken row never replaces a value
\* that another writer committed after the replacing value was issued: the
\* update of a "tokens" listener overwrites access, expiry and refresh only
\* where they still are what they were when the event arrived.
C26_NoStaleOverwrite ==
    [][ \A c \in Cycles :
          (Persists(c) /\ token' # token) =>
              LET u == cyc[c].pendingTokens
                  seen == cyc[c].tokenSeen
              IN  /\ u.access # "" => token.access = seen.access /\ token.expiry = seen.expiry
                  /\ u.refresh # "" => token.refresh = seen.refresh ]_vars

\* The positions of a running invocation and the ways runEmailSync returns.
CyclePositions ==
    {"list", "fetch", "save", "download", "upload", "record", "commit", "commitEmpty"}

CycleOutcomes == {"END", "ABORT_FATAL", "ABORT_NO_CREDENTIAL"}

\* C27: an invocation is always idle or at one of its awaits and, once it has
\* returned, has one of the three outcomes; every started invocation returns
\* when its pending calls return or throw; a step in which a call fails either
\* leaves the invocation running or ends it (with ABORT_NO_CREDENTIAL when the
\* failing call is the load of the credential, with ABORT_FATAL when it is the
\* listing or the cursor write, with END when it is a call for the last listed
\* message of an invocation that has no cursor to write).
C27_CycleTerminates ==
    /\ [](\A c \in Cycles :
            /\ cyc[c].pc \in CyclePositions \cup {"idle"}
            /\ cyc[c].outcome \in CycleOutcomes \cup {"none"}
            /\ cyc[c].pc # "idle" => cyc[c].outcome = "none")
    /\ \A c \in Cycles : (cyc[c].pc \in CyclePositions) ~> Finished(c)
    /\ [][ \A c \in Cycles :
             /\ (StepBy(c) /\ faults' > faults) =>
                    \/ cyc'[c].pc \in CyclePositions
                    \/ /\ Finished(c)'
                       /\ cyc'[c].outcome =
                              CASE cyc[c].pc = "idle" -> "ABORT_NO_CREDENTIAL"
                                [] cyc[c].pc \in {"list", "commit", "commitEmpty"} -> "ABORT_FATAL"
                                [] OTHER -> "END"
             /\ (cyc[c].pc \in {"commit", "commitEmpty"} /\ StepBy(c)) =>
                    /\ Finished(c)'
                    /\ cyc'[c].outcome = IF Writes(c) THEN "END" ELSE "ABORT_FATAL" ]_vars

\* C27 witness: the fetch of the only listed message failed and then the
\* cursor write failed; the invocation has returned with ABORT_FATAL and the
\* stored cursor is the one it read.
C27_Witness ==
    \E c \in Cycles :
        /\ Finished(c) /\ cyc[c].outcome = "ABORT_FATAL"
        /\ cyc[c].res = <<"fetchErr">>
        /\ cyc[c].newHistoryId # NoCursor
        /\ cyc[c].wrote = <<>>
        /\ faults = 2
        /\ token.exists /\ token.lastHistoryId = cyc[c].currentHistoryId

\* C28: the answer of /sync-now is the fixed text; it is sent in the step in
\* which the handler has called runEmailSync, while the invocation it started
\* has not done any of its work (it is at its listing, or has returned for
\* want of a credential); no later step of any invocation changes the answer.
C28_SyncNowDoesNotWait ==
    /\ [](response \in {"none", "initiated"})
    /\ [][ /\ response' # response =>
                /\ response' = "initiated"
                /\ \E c \in Cycles :
                      /\ cyc[c].pc = "idle"
                      /\ \A d \in Cycles \ {c} : ~StepBy(d)
                      /\ \/ cyc'[c] = [IdleCycle EXCEPT !.pc = "list",
                                                        !.currentHistoryId = token.lastHistoryId]
                         \/ cyc'[c] = [IdleCycle EXCEPT !.outcome = "ABORT_NO_CREDENTIAL"]
                /\ UNCHANGED <<token, history, emails, attachments, drive, xfer>>
           /\ response = "initiated" => response' = "initiated" ]_vars

\* C28 witness: /sync-now has answered; one invocation has since ended with
\* ABORT_FATAL and another one is in the middle of an attachment.
C28_Witness ==
    /\ response = "initiated"
    /\ \E c, d \in Cycles :
          /\ Finished(c) /\ cyc[c].outcome = "ABORT_FATAL"
          /\ cyc[d].pc = "upload"

\* C29 (as claimed): an invocation fetches the content of a listed id, and
\* calls processAndSaveEmail (and through it saveEmail) for it, only when no
\* Email row with that gmailId is stored.
C29_StoredNeverReprocessed ==
    [][ \A c \in Cycles :
          cyc[c].pc \in {"fetch", "save"} =>
              /\ Len(cyc'[c].fetched) > Len(cyc[c].fetched) => ~Stored(Current(c))
              /\ Len(cyc'[c].calls) > Len(cyc[c].calls) => ~Stored(Current(c)) ]_vars

\* C30: every step leaves each stored Email row as it is and in its place
\* (rows are only added, one at a time, by a save step whose data collides
\* with no stored row); a save whose gmailId or messageId is stored, every
\* step of the attachment loop, and every step that starts or ends an
\* invocation leave the Email rows unchanged.
C30_ItemsImmutable ==
    [][ /\ Len(emails') \in {Len(emails), Len(emails) + 1}
        /\ SubSeq(emails', 1, Len(emails)) = emails
        /\ emails' # emails =>
              \E c \in Cycles :
                 /\ cyc[c].pc = "save" /\ StepBy(c)
                 /\ ~Duplicate(parseEmailContent(RawEmail(Current(c))))
                 /\ emails' = Append(emails, parseEmailContent(RawEmail(Current(c))))
        /\ \A c \in Cycles :
              (/\ StepBy(c)
               /\ \/ cyc[c].pc \in Pipeline \cup {"idle", "list", "fetch", "commit", "commitEmpty"}
                  \/ cyc[c].pc = "save" /\ Duplicate(parseEmailContent(RawEmail(Current(c)))))
              => emails' = emails ]_vars

\* C30 witness: m1 is stored with its Message-ID; a later invocation was handed
\* m2, which carries the same Message-ID, dropped it, and an attachment of m1
\* has been recorded; the row of m1 is the only one.
C30_Witness ==
    /\ emails = <<parseEmailContent(RawEmail("m1"))>>
    /\ xfer["att1"] = "recorded"
    /\ \E c \in Cycles :
          /\ Finished(c)
          /\ \E i \in 1..Len(cyc[c].res) :
                cyc[c].res[i] = "dup" /\ cyc[c].messageHeaders[i] = "m2"

\* C31: every Attachment row points to a stored Email row whose message has
\* the part, and to the Drive file created for that part; no two Attachment
\* rows are for the same part of the same Email row or for the same Drive
\* file; and the step that creates an Attachment row finds its Email row
\* already stored, adds exactly one row and changes no other.
C31_AttachmentsReferenceItems ==
    /\ [](\A i \in 1..Len(attachments) :
            LET a == attachments[i]
            IN  /\ a.emailId \in 1..Len(emails)
                /\ a.attachmentId \in PartsOf(emails[a.emailId].gmailId)
                /\ a.driveId \in 1..Len(drive)
                /\ drive[a.driveId].name = a.filename
                /\ \A j \in 1..Len(attachments) :
                      j # i => /\ <<attachments[j].emailId, attachments[j].attachmentId>>
                                     # <<a.emailId, a.attachmentId>>
                               /\ attachments[j].driveId # a.driveId)
    /\ [][ attachments' # attachments =>
              /\ Len(attachments') = Len(attachments) + 1
              /\ SubSeq(attachments', 1, Len(attachments)) = attachments
              /\ attachments'[Len(attachments')].emailId \in 1..Len(emails)
              /\ emails' = emails ]_vars

\* C31 witness: the two well-formed attachments of m1 are recorded, each on
\* the one Email row and each with its own Drive file; the part without
\* mimeType has no row.
C31_Witness ==
    /\ Len(attachments) = 2
    /\ Len(emails) >= 1 /\ emails[1].gmailId = "m1"
    /\ \A i \in 1..2 : attachments[i].emailId = 1
    /\ {attachments[i].attachmentId : i \in 1..2} = {"att1", "att2"}
    /\ xfer["att3"] = "malformed"

HandedOver(c, m) ==
    \E i \in 1..Len(cyc[c].res) :
        cyc[c].messageHeaders[i] = m /\ cyc[c].res[i] \in {"saved", "dup"}

\* Invocation c created the Email row of message m.
Created(c, m) ==
    \E i \in 1..Len(cyc[c].res) :
        cyc[c].messageHeaders[i] = m /\ cyc[c].res[i] = "saved"

\* The rows of table rows whose field f has value v.
RowsWith(rows, f, v) == {i \in 1..Len(rows) : rows[i][f] = v}

\* C33: when two invocations have both handed message m to saveEmail, one
\* Email row with its gmailId or Message-ID is stored and at most one of the
\* two created it; two invocations are never in the attachment loop of the
\* same message, and the one that is in it is the one whose create succeeded;
\* no part has more than one Drive file and more than one Attachment row.
C33_ConcurrentSameMessage ==
    /\ \A m \in Msgs :
          /\ Cardinality(RowsWith(emails, "gmailId", m)) <= 1
          /\ \A c, d \in Cycles :
                (c # d /\ HandedOver(c, m) /\ HandedOver(d, m)) =>
                    /\ StoredOrDup(m)
                    /\ ~(Created(c, m) /\ Created(d, m))
    /\ \A c \in Cycles :
          cyc[c].pc \in Pipeline =>
              /\ emails[cyc[c].savedEmail].gmailId = Current(c)
              /\ \A d \in Cycles \ {c} :
                    /\ ~Created(d, Current(c))
                    /\ cyc[d].pc \in Pipeline => Current(d) # Current(c)
    /\ \A m \in Msgs : \A k \in 1..Len(attachmentsToProcess(m)) :
          LET part == attachmentsToProcess(m)[k]
          IN  /\ Cardinality(RowsWith(drive, "name", part.filename)) <= 1
              /\ Cardinality(RowsWith(attachments, "attachmentId", part.attachmentId)) <= 1

\* C33 witness: both invocations are running and listed m1; one created the
\* row and is uploading an attachment of m1 while the other has been answered
\* with a duplicate for m1 and is at its cursor update.
C33_Witness ==
    \E c, d \in Cycles :
        /\ c # d
        /\ cyc[c].pc = "upload" /\ Current(c) = "m1"
        /\ cyc[d].pc = "commit"
        /\ \E i \in 1..Len(cyc[d].res) : cyc[d].messageHeaders[i] = "m1" /\ cyc[d].res[i] = "dup"
        /\ Cardinality(RowsWith(emails, "gmailId", "m1")) = 1

\* The part invocation c's attachment loop is at.
CurrentPart(c) == attachmentsToProcess(Current(c))[cyc[c].partIdx]

\* What may become of a part in one step, by what became of it so far.
PartOrder ==
    [none       |-> {"downloaded", "dlNone", "dlErr", "malformed"},
     downloaded |-> {"uploaded", "ulErr"},
     uploaded   |-> {"recorded", "recErr"}]

\* C34: a part goes through download, upload, record in this order and
\* through each at most once: the upload is attempted only in the step after
\* a download that returned data, the Attachment row is created only in the
\* step after an upload that returned the Drive file, and a part that was
\* skipped as malformed, whose download brought no data or threw, or whose
\* upload threw (uploadToDrive throws on an answer without id or
\* webViewLink) is never uploaded, has no Drive file returned and no
\* Attachment row, and is left for good.
C34_DownloadUploadPersist ==
    /\ [](/\ \A a \in AttIds :
                xfer[a] \in {"none", "downloaded", "malformed", "dlNone", "dlErr", "ulErr"} =>
                    RowsWith(attachments, "attachmentId", a) = {}
          /\ \A c \in Cycles :
                /\ cyc[c].pc \in Pipeline => ~Malformed(CurrentPart(c))
                /\ cyc[c].pc = "download" => xfer[CurrentPart(c).attachmentId] = "none"
                /\ cyc[c].pc = "upload" => xfer[CurrentPart(c).attachmentId] = "downloaded"
                /\ cyc[c].pc = "record" =>
                      /\ xfer[CurrentPart(c).attachmentId] = "uploaded"
                      /\ cyc[c].uploadedFile \in 1..Len(drive)
                      /\ drive[cyc[c].uploadedFile].name = CurrentPart(c).filename)
    /\ [][ /\ \A a \in AttIds :
                xfer'[a] # xfer[a] =>
                    /\ xfer[a] \in DOMAIN PartOrder
                    /\ xfer'[a] \in PartOrder[xfer[a]]
           /\ \A c \in Cycles :
                /\ (StepBy(c) /\ cyc'[c].pc = "upload") =>
                      /\ cyc[c].pc = "download"
                      /\ cyc'[c].partIdx = cyc[c].partIdx /\ cyc'[c].idx = cyc[c].idx
                      /\ drive' = drive
                /\ (StepBy(c) /\ cyc'[c].pc = "record") =>
                      /\ cyc[c].pc = "upload"
                      /\ cyc'[c].partIdx = cyc[c].partIdx /\ cyc'[c].idx = cyc[c].idx
                      /\ drive' = Append(drive, [name |-> CurrentPart(c).filename,
                                                 mimeType |-> CurrentPart(c).mimeType])
                      /\ attachments' = attachments
           /\ drive' # drive =>
                 \E c \in Cycles : cyc[c].pc = "upload" /\ cyc'[c].pc = "record"
           /\ attachments' # attachments =>
                 \E c \in Cycles :
                    /\ cyc[c].pc = "record" /\ StepBy(c)
                    /\ xfer'[CurrentPart(c).attachmentId] = "recorded" ]_vars

\* C34 witness: of the three parts of m1 one had no data (404), one had no
\* mimeType and the upload of one threw; the invocation has returned and
\* there is no Drive file and no Attachment row.
C34_Witness ==
    /\ xfer["att1"] = "dlNone" /\ xfer["att3"] = "malformed" /\ xfer["att2"] = "ulErr"
    /\ drive = <<>> /\ attachments = <<>>
    /\ Stored("m1")
    /\ \E c \in Cycles : Finished(c) /\ Created(c, "m1")

\* ------------------------------------------------------ attachment discovery
\* getEmailContent has returned a message whose payload is one of the part
\* trees, the only message of the mailbox, to an invocation without cursor.
InitFind ==
    \E t \in 0..(NTrees - 1) :
        /\ token = [exists |-> TRUE, access |-> "a0", refresh |-> "enc-r1",
                    expiry |-> 0, lastHistoryId |-> NoCursor]
        /\ history = <<TreeId(t)>>
        /\ emails = <<>>
        /\ attachments = <<>>
        /\ drive = <<>>
        /\ xfer = [a \in AttIds |-> "none"]
        /\ cyc = [c \in Cycles |->
                    IF c = 1
                    THEN [IdleCycle EXCEPT !.pc = "save", !.idx = 1,
                                           !.messageHeaders = <<TreeId(t)>>,
                                           !.fetched = <<TreeId(t)>>]
                    ELSE IdleCycle]
        /\ faults = 0
        /\ response = "none"

\* processAndSaveEmail runs for that message.
NextFind ==
    \/ \E c \in Cycles : SaveStep(c)
    \/ \E c \in Cycles : DownloadStep(c)
    \/ \E c \in Cycles : UploadStep(c)
    \/ \E c \in Cycles : RecordStep(c)

SpecFind == InitFind /\ [][NextFind]_vars

\* The places of the parts of message m's payload, parents before children
\* and siblings left to right (a place is the path of indexes from the top).
PreOrderPaths(m) ==
    CASE m = "m1" -> << <<1>>, <<2>>, <<3>>, <<3, 1>>, <<3, 2>>, <<3, 3>> >>
      [] m = "m2" -> << >>
      [] m \in TreeIds -> << <<1>>, <<1, 1>>, <<1, 1, 1>>, <<2>> >>
      [] OTHER -> << <<1>> >>

\* The part at a place.
RECURSIVE PartAt(_, _)
PartAt(parts, path) ==
    IF Len(path) = 1 THEN parts[Head(path)]
    ELSE PartAt(parts[Head(path)].parts, Tail(path))

\* A part with a non-empty filename and an attachmentId.
Qualifies(part) == part.filename # "" /\ part.attachmentId # ""

\* The parts of message m that qualify, by place, in pre-order.
QualifyingParts(m) ==
    SelectSeq([i \in 1..Len(PreOrderPaths(m)) |->
                   PartAt(RawEmail(m).parts, PreOrderPaths(m)[i])],
              Qualifies)

\* C35: for the message processAndSaveEmail is working on, findAttachments
\* returns the parts of the payload that have a non-empty filename and an
\* attachmentId, whatever their depth, each once and in pre-order, and no
\* other part; the attachment loop is at one of them and goes through them in
\* that order (a step of the loop stays at its part or moves to a later one).
C35_FindAttachments ==
    /\ [](\A c \in Cycles :
            cyc[c].pc \in {"save"} \cup Pipeline =>
                /\ attachmentsToProcess(Current(c)) = QualifyingParts(Current(c))
                /\ \A i, j \in 1..Len(attachmentsToProcess(Current(c))) :
                      i # j => attachmentsToProcess(Current(c))[i]
                                  # attachmentsToProcess(Current(c))[j]
                /\ cyc[c].pc \in Pipeline =>
                      /\ cyc[c].partIdx \in 1..Len(QualifyingParts(Current(c)))
                      /\ Qualifies(CurrentPart(c)))
    /\ [][ \A c \in Cycles :
             (cyc[c].pc \in Pipeline /\ cyc'[c].pc \in Pipeline /\ cyc'[c].idx = cyc[c].idx) =>
                 \/ cyc'[c].partIdx = cyc[c].partIdx
                 \/ cyc'[c].partIdx > cyc[c].partIdx /\ cyc'[c].pc = "download" ]_vars

\* C35 witness: of a payload nested three deep the top part 1 has a filename
\* but no attachmentId, part 2 inside it has an attachmentId but no filename,
\* part 3 inside part 2 and the top part 4 have both; part 3 is recorded and
\* the loop is at part 4.
C35_Witness ==
    \E c \in Cycles :
        /\ cyc[c].pc = "download" /\ cyc[c].partIdx = 2
        /\ Current(c) = TreeId(1 + 8 + 16 + 32 + 64 + 128)
        /\ attachmentsToProcess(Current(c)) =
              << Part("c.bin", "att3", "application/octet-stream", <<>>),
                 Part("d.txt", "att4", "application/octet-stream", <<>>) >>
        /\ xfer["att3"] = "recorded"

\* C36: a step that changes the OAuthToken row and is not the cursor write of
\* an invocation is a write of handleOAuthCallback. On an existing row it
\* stores the new access token and expiry, leaves lastHistoryId as it is and
\* leaves refresh as it is or replaces it by the encryption of the refresh
\* token received; without a row it creates one with lastHistoryId null and
\* the encryption of the refresh token received, never one without refresh
\* value.
C36_CallbackFrame ==
    [][ (token' # token /\ \A c \in Cycles : ~Writes(c)) =>
           /\ token'.exists
           /\ token'.access = "a1" /\ token'.expiry = 1
           /\ token.exists =>
                 /\ token'.lastHistoryId = token.lastHistoryId
                 /\ token'.refresh \in {token.refresh, encrypt("r1")}
           /\ ~token.exists =>
                 /\ token'.lastHistoryId = NoCursor
                 /\ token'.refresh = encrypt("r1")
           /\ UNCHANGED <<history, emails, attachments, drive, xfer, cyc, faults, response>> ]_vars

\* C36 witness: a row without refresh value and with cursor 0 was
\* re-authorized without a new refresh token: access and expiry are the new
\* ones, the refresh value is still empty and the cursor still 0.
C36_Witness ==
    token = [exists |-> TRUE, access |-> "a1", refresh |-> "", expiry |-> 1,
             lastHistoryId |-> 0]

\* ------------------------------------------------------------ the counters
\* The listing of three messages in which the entries of the set holes came
\* without id.
Headers(ids, holes) == [i \in 1..Len(ids) |-> IF i \in holes THEN NoId ELSE ids[i]]

\* An invocation has listed the three messages of the mailbox, incrementally
\* from cursor 0 or without cursor, any of the entries without id, and is at
\* the top of its for loop.
InitCount ==
    \E holes \in SUBSET (1..Len(MsgOrder)), k \in {NoCursor, 0} :
        LET r == listNewEmailMessages(k, MsgOrder)
        IN  /\ token = [exists |-> TRUE, access |-> "a0", refresh |-> "enc-r1",
                        expiry |-> 0, lastHistoryId |-> k]
            /\ history = MsgOrder
            /\ emails = <<>>
            /\ attachments = <<>>
            /\ drive = <<>>
            /\ xfer = [a \in AttIds |-> "none"]
            /\ cyc = [c \in Cycles |->
                        IF c = 1
                        THEN [IdleCycle EXCEPT !.pc = "fetch", !.idx = 1,
                                               !.currentHistoryId = k,
                                               !.messageHeaders = Headers(r.messages, holes),
                                               !.newHistoryId = r.historyId]
                        ELSE IdleCycle]
            /\ faults = 0
            /\ response = "none"

\* syncGmail.ts lines 241-245: the entry the loop is at has no id; it is
\* counted as failed and skipped, no call is made for it.
SkipInvalidHeader(c) ==
    /\ cyc[c].pc = "fetch"
    /\ Current(c) = NoId
    /\ cyc' = [cyc EXCEPT ![c] = FinishItem(cyc[c], "invalid")]
    /\ UNCHANGED <<token, history, emails, attachments, drive, xfer, faults, response>>

\* The for loop of that invocation and its cursor update.
NextCount ==
    \/ \E c \in Cycles : SkipInvalidHeader(c)
    \/ \E c \in Cycles : FetchStep(c)
    \/ \E c \in Cycles : SaveStep(c)
    \/ \E c \in Cycles : DownloadStep(c)
    \/ \E c \in Cycles : UploadStep(c)
    \/ \E c \in Cycles : RecordStep(c)
    \/ \E c \in Cycles : CommitCursor(c)

SpecCount == InitCount /\ [][NextCount]_vars

\* The entries of invocation c the loop is done with.
Counted(c) == cyc[c].successfullyProcessedCount + cyc[c].failedProcessingCount

\* C37: the two counters of an invocation add up to the number of entries its
\* loop is done with; when the loop is over (the invocation is at the cursor
\* update or has returned) that is the number of listed entries; and the step
\* that is done with an entry, whether it skips a header without id, gets
\* null or an exception from the fetch, or returns from processAndSaveEmail,
\* adds one to exactly one of the counters, while no other step changes them.
C37_CountersAddUp ==
    /\ [](\A c \in Cycles :
            /\ Counted(c) = Len(cyc[c].res)
            /\ cyc[c].pc \in {"fetch", "save"} \cup Pipeline => Len(cyc[c].res) = cyc[c].idx - 1
            /\ cyc[c].pc \in {"commit", "idle"} => Counted(c) = Len(cyc[c].messageHeaders))
    /\ [][ \A c \in Cycles :
             cyc[c].pc \notin {"idle", "list"} =>
                 LET ds == cyc'[c].successfullyProcessedCount - cyc[c].successfullyProcessedCount
                     df == cyc'[c].failedProcessingCount - cyc[c].failedProcessingCount
                 IN  IF cyc'[c].idx # cyc[c].idx
                     THEN /\ cyc'[c].idx = cyc[c].idx + 1
                          /\ <<ds, df>> \in {<<1, 0>>, <<0, 1>>}
                          /\ cyc'[c].res[Len(cyc'[c].res)] \in
                                {"invalid", "fetchNull", "fetchErr", "authErr"} => df = 1
                     ELSE ds = 0 /\ df = 0 ]_vars

\* C37 witness: of three listed entries the first came without id, the fetch
\* of the second returned null and the third was stored; the loop is over and
\* the counters are 1 succeeded and 2 failed.
C37_Witness ==
    \E c \in Cycles :
        /\ cyc[c].pc = "commit"
        /\ cyc[c].messageHeaders[1] = NoId
        /\ cyc[c].res = <<"invalid", "fetchNull", "saved">>
        /\ cyc[c].successfullyProcessedCount = 1
        /\ cyc[c].failedProcessingCount = 2

====
